---- MODULE Spec2Model ----
(***************************************************************************)
(* Rigid-body core of AVBD-BABYLON: the Solver (bSolver.ts) and the        *)
(* CubeRigidbody class (bCubeRigid.ts).  bCubeRigid.ts holds two versions  *)
(* of the class: the position-based one the Solver steps (forceAccum,      *)
(* initialPosition, inertialPosition, ...) and the momentum-based one      *)
(* (linearMomentum, angularMomentum, applyImpulse).  A body of the model   *)
(* carries the fields of both; an operation that exists in both versions   *)
(* with a different body has two definitions.                              *)
(*                                                                         *)
(* Numbers.  A JavaScript number is modelled as an exact rational <<n, d>> *)
(* in lowest terms with d > 0, extended by the three non-finite values of  *)
(* IEEE arithmetic: <<1, 0>> (Infinity), <<-1, 0>> (-Infinity) and         *)
(* <<0, 0>> (NaN).  Rounding and the sign of zero are outside the model.   *)
(***************************************************************************)
EXTENDS Integers, Sequences, FiniteSets, TLC

\* ------------------------------------------------------------------ numbers

Abs(n) == IF n < 0 THEN -n ELSE n

Sign(n) == IF n < 0 THEN -1 ELSE IF n > 0 THEN 1 ELSE 0

RECURSIVE GCD(_, _)
GCD(a, b) == IF b = 0 THEN a ELSE GCD(b, a % b)

\* n/d with the common factor g taken out.
Reduced(n, d, g) == <<n \div g, d \div g>>

\* The number n/d: lowest terms, positive denominator; x/0 is +-Infinity or NaN.
Rat(n, d) ==
    IF d = 1 THEN <<n, 1>>
    ELSE IF d = 0 THEN <<Sign(n), 0>>
    ELSE Reduced(Sign(d) * n, Abs(d), GCD(Abs(n), Abs(d)))

R(n) == <<n, 1>>

NaN == <<0, 0>>

IsNaN(x) == x[2] = 0 /\ x[1] = 0

\* isFinite(x) of JavaScript: neither an infinity nor NaN.
IsFinite(x) == x[2] # 0

RNeg(x) == <<-x[1], x[2]>>

\* x + y of two finite numbers, g the common factor of their denominators.
SumOver(x, y, g) ==
    Rat(x[1] * (y[2] \div g) + y[1] * (x[2] \div g), (x[2] \div g) * y[2])

\* Sums and products cancel common factors first, to keep the integers small.
RAdd(x, y) ==
    IF x[2] = 1 /\ y[2] = 1 THEN <<x[1] + y[1], 1>>
    ELSE IF x[1] = 0 /\ x[2] # 0 THEN y
    ELSE IF y[1] = 0 /\ y[2] # 0 THEN x
    ELSE IF IsFinite(x) /\ IsFinite(y) THEN SumOver(x, y, GCD(x[2], y[2]))
    ELSE IF IsNaN(x) \/ IsNaN(y) THEN NaN
    ELSE IF IsFinite(y) THEN x
    ELSE IF IsFinite(x) THEN y
    ELSE IF x = y THEN x ELSE NaN

RSub(x, y) == RAdd(x, RNeg(y))

\* x * y of two finite numbers, g1 and g2 the factors that cancel crosswise.
ProductOver(x, y, g1, g2) ==
    Rat((x[1] \div g1) * (y[1] \div g2), (x[2] \div g2) * (y[2] \div g1))

RMul(x, y) ==
    IF x[2] = 1 /\ y[2] = 1 THEN <<x[1] * y[1], 1>>
    ELSE IF IsFinite(x) /\ IsFinite(y) /\ (x[1] = 0 \/ y[1] = 0) THEN <<0, 1>>
    ELSE IF IsFinite(x) /\ IsFinite(y)
    THEN ProductOver(x, y, GCD(Abs(x[1]), y[2]), GCD(Abs(y[1]), x[2]))
    ELSE IF IsNaN(x) \/ IsNaN(y) THEN NaN
    ELSE IF x[1] = 0 \/ y[1] = 0 THEN NaN
    ELSE <<Sign(x[1]) * Sign(y[1]), 0>>

RDiv(x, y) ==
    IF IsNaN(x) \/ IsNaN(y) THEN NaN
    ELSE IF IsFinite(y)
         THEN IF IsFinite(x)
              THEN IF y[1] = 0 THEN <<Sign(x[1]), 0>>
                   ELSE RMul(x, <<Sign(y[1]) * y[2], Abs(y[1])>>)
              ELSE IF y[1] = 0 THEN x ELSE <<Sign(x[1]) * Sign(y[1]), 0>>
    ELSE IF IsFinite(x) THEN R(0) ELSE NaN

\* x < y of two finite numbers, g the common factor of their denominators.
LessOver(x, y, g) == x[1] * (y[2] \div g) < y[1] * (x[2] \div g)

\* x < y of JavaScript: false as soon as one side is NaN.
RLt(x, y) ==
    IF IsNaN(x) \/ IsNaN(y) THEN FALSE
    ELSE IF IsFinite(x) /\ IsFinite(y) THEN LessOver(x, y, GCD(x[2], y[2]))
    ELSE IF x = y THEN FALSE
    ELSE x = <<-1, 0>> \/ y = <<1, 0>>

RGt(x, y) == RLt(y, x)

RLe(x, y) == ~IsNaN(x) /\ ~IsNaN(y) /\ ~RLt(y, x)

RGe(x, y) == RLe(y, x)

\* Math.max / Math.min: NaN as soon as one argument is NaN.
RMax(x, y) == IF IsNaN(x) \/ IsNaN(y) THEN NaN ELSE IF RLt(x, y) THEN y ELSE x

RMin(x, y) == IF IsNaN(x) \/ IsNaN(y) THEN NaN ELSE IF RLt(y, x) THEN y ELSE x

\* Math.floor of a finite number.
RFloor(x) == x[1] \div x[2]

\* The largest r in lo..hi with r * r <= k, by bisection (lo * lo <= k).
RECURSIVE ISqrtIn(_, _, _)
ISqrtIn(k, lo, hi) ==
    IF lo >= hi THEN lo
    ELSE IF ((lo + hi + 1) \div 2) * ((lo + hi + 1) \div 2) <= k
         THEN ISqrtIn(k, (lo + hi + 1) \div 2, hi)
         ELSE ISqrtIn(k, lo, ((lo + hi + 1) \div 2) - 1)

\* The integer part of the square root of a natural number (of 31 bits).
ISqrt(k) == ISqrtIn(k, 0, IF k < 46340 THEN k ELSE 46340)

IsSquare(k) == k >= 0 /\ ISqrt(k) * ISqrt(k) = k

\* x is a number whose square root is a rational: Math.sqrt is exact there.
HasSqrt(x) == IsFinite(x) /\ IsSquare(x[1]) /\ IsSquare(x[2])

\* Math.sqrt.  Exact on the squares of rationals, the only arguments the
\* specifications below let it meet; NaN below zero.
RSqrt(x) ==
    IF IsNaN(x) \/ x[1] < 0 THEN NaN
    ELSE IF ~IsFinite(x) THEN x
    ELSE <<ISqrt(x[1]), ISqrt(x[2])>>

\* ------------------------------------------------- gl-matrix vec3, quat, mat3
\* A vec3 is <<x, y, z>>, a quat <<x, y, z, w>>, a mat3 its three rows.

Zero3 == <<R(0), R(0), R(0)>>

V3(x, y, z) == <<R(x), R(y), R(z)>>

vec3Add(a, b) == <<RAdd(a[1], b[1]), RAdd(a[2], b[2]), RAdd(a[3], b[3])>>

vec3Subtract(a, b) == <<RSub(a[1], b[1]), RSub(a[2], b[2]), RSub(a[3], b[3])>>

vec3Scale(a, s) == <<RMul(a[1], s), RMul(a[2], s), RMul(a[3], s)>>

\* vec3.scaleAndAdd(out, a, b, s): a + b * s.
vec3ScaleAndAdd(a, b, s) ==
    << RAdd(a[1], RMul(b[1], s)), RAdd(a[2], RMul(b[2], s)), RAdd(a[3], RMul(b[3], s)) >>

vec3Dot(a, b) == RAdd(RAdd(RMul(a[1], b[1]), RMul(a[2], b[2])), RMul(a[3], b[3]))

vec3Cross(a, b) ==
    << RSub(RMul(a[2], b[3]), RMul(a[3], b[2])),
       RSub(RMul(a[3], b[1]), RMul(a[1], b[3])),
       RSub(RMul(a[1], b[2]), RMul(a[2], b[1])) >>

vec3SquaredLength(a) == vec3Dot(a, a)

vec3Length(a) == RSqrt(vec3SquaredLength(a))

\* vec3.transformMat3(out, a, m): the matrix m applied to a.
vec3TransformMat3(a, m) == <<vec3Dot(m[1], a), vec3Dot(m[2], a), vec3Dot(m[3], a)>>

Vec3Finite(a) == IsFinite(a[1]) /\ IsFinite(a[2]) /\ IsFinite(a[3])

mat3Identity == <<V3(1, 0, 0), V3(0, 1, 0), V3(0, 0, 1)>>

mat3Transpose(m) ==
    << <<m[1][1], m[2][1], m[3][1]>>,
       <<m[1][2], m[2][2], m[3][2]>>,
       <<m[1][3], m[2][3], m[3][3]>> >>

\* The rows of a against the rows of bt.
mat3RowsByRows(a, bt) ==
    << <<vec3Dot(a[1], bt[1]), vec3Dot(a[1], bt[2]), vec3Dot(a[1], bt[3])>>,
       <<vec3Dot(a[2], bt[1]), vec3Dot(a[2], bt[2]), vec3Dot(a[2], bt[3])>>,
       <<vec3Dot(a[3], bt[1]), vec3Dot(a[3], bt[2]), vec3Dot(a[3], bt[3])>> >>

\* mat3.multiply(out, a, b): the matrix product a b.
mat3Multiply(a, b) == mat3RowsByRows(a, mat3Transpose(b))

\* mat3.fromQuat, with x2 = x + x, y2 = y + y, z2 = z + z.
mat3FromDoubled(q, x2, y2, z2) ==
    << << RSub(RSub(R(1), RMul(q[2], y2)), RMul(q[3], z2)),
          RSub(RMul(q[2], x2), RMul(q[4], z2)),
          RAdd(RMul(q[3], x2), RMul(q[4], y2)) >>,
       << RAdd(RMul(q[2], x2), RMul(q[4], z2)),
          RSub(RSub(R(1), RMul(q[1], x2)), RMul(q[3], z2)),
          RSub(RMul(q[3], y2), RMul(q[4], x2)) >>,
       << RSub(RMul(q[3], x2), RMul(q[4], y2)),
          RAdd(RMul(q[3], y2), RMul(q[4], x2)),
          RSub(RSub(R(1), RMul(q[1], x2)), RMul(q[2], y2)) >> >>

\* mat3.fromQuat(out, q): the rotation matrix of q (a rotation when |q| = 1).
mat3FromQuat(q) == mat3FromDoubled(q, RAdd(q[1], q[1]), RAdd(q[2], q[2]), RAdd(q[3], q[3]))

quatIdentity == <<R(0), R(0), R(0), R(1)>>

quatSquaredLength(q) ==
    RAdd(RAdd(RMul(q[1], q[1]), RMul(q[2], q[2])),
         RAdd(RMul(q[3], q[3]), RMul(q[4], q[4])))

quatScale(q, s) == <<RMul(q[1], s), RMul(q[2], s), RMul(q[3], s), RMul(q[4], s)>>

\* quat.normalize, the factor: 1 / sqrt(len) when len = |q|^2 is > 0, and len
\* itself when it is not (the zero quaternion stays zero).
inverseLength(len) == IF RGt(len, R(0)) THEN RDiv(R(1), RSqrt(len)) ELSE len

\* quat.normalize(out, a)
quatNormalize(q) == quatScale(q, inverseLength(quatSquaredLength(q)))

\* quat.multiply(out, a, b): the Hamilton product a b.
quatMultiply(a, b) ==
    << RSub(RAdd(RAdd(RMul(a[1], b[4]), RMul(a[4], b[1])), RMul(a[2], b[3])),
            RMul(a[3], b[2])),
       RSub(RAdd(RAdd(RMul(a[2], b[4]), RMul(a[4], b[2])), RMul(a[3], b[1])),
            RMul(a[1], b[3])),
       RSub(RAdd(RAdd(RMul(a[3], b[4]), RMul(a[4], b[3])), RMul(a[1], b[2])),
            RMul(a[2], b[1])),
       RSub(RSub(RSub(RMul(a[4], b[4]), RMul(a[1], b[1])), RMul(a[2], b[2])),
            RMul(a[3], b[3])) >>

quatConjugate(q) == <<RNeg(q[1]), RNeg(q[2]), RNeg(q[3]), q[4]>>

\* ------------------------------------------------------------ mathHelpers
\* mathHelpers.ts is imported by the sources and is not among them.

\* A Babylon Vector3 is a record [x, y, z], a Babylon Quaternion [x, y, z, w].
Vector3(x, y, z) == [x |-> x, y |-> y, z |-> z]

Quaternion(x, y, z, w) == [x |-> x, y |-> y, z |-> z, w |-> w]

vec3FromBabylon(v) == <<v.x, v.y, v.z>>

vec3ToBabylon(v) == Vector3(v[1], v[2], v[3])

\* The orientation of a body is "a normalized copy" of the quaternion given.
quatFromBabylon(q) == quatNormalize(<<q.x, q.y, q.z, q.w>>)

mat3Diag(a, b, c) == << <<a, R(0), R(0)>>, <<R(0), b, R(0)>>, <<R(0), R(0), c>> >>

\* q' = 1/2 (0, w) q, the derivative of the orientation q under the angular
\* velocity w.
quatDerivative(q, w) ==
    << RMul(Rat(1, 2),
            RAdd(RMul(q[4], w[1]), RSub(RMul(w[2], q[3]), RMul(w[3], q[2])))),
       RMul(Rat(1, 2),
            RAdd(RMul(q[4], w[2]), RSub(RMul(w[3], q[1]), RMul(w[1], q[3])))),
       RMul(Rat(1, 2),
            RAdd(RMul(q[4], w[3]), RSub(RMul(w[1], q[2]), RMul(w[2], q[1])))),
       RMul(Rat(1, 2), RNeg(vec3Dot(w, <<q[1], q[2], q[3]>>))) >>

\* q + d * dt
quatScaleAndAdd(q, d, dt) ==
    << RAdd(q[1], RMul(d[1], dt)), RAdd(q[2], RMul(d[2], dt)),
       RAdd(q[3], RMul(d[3], dt)), RAdd(q[4], RMul(d[4], dt)) >>

\* One explicit Euler step of q' = 1/2 (0, w) q over dt.
quatEulerStep(q, w, dt) == quatScaleAndAdd(q, quatDerivative(q, w), dt)

\* integrateQuat renormalizes the Euler step, and gives q itself when w is
\* exactly zero.
integrateQuat(q, w, dt) ==
    IF vec3SquaredLength(w) = R(0) THEN q ELSE quatNormalize(quatEulerStep(q, w, dt))

\* The angular velocity that turns by dq over dt: (2 / dt) vec(dq) / w(dq).
omegaOfTurn(dq, dt) ==
    vec3Scale(<<RDiv(dq[1], dq[4]), RDiv(dq[2], dq[4]), RDiv(dq[3], dq[4])>>,
              RDiv(R(2), dt))

\* The angular velocity that integrateQuat turns q0 into q1 with over dt,
\* from dq = q1 q0*.
omegaFromQuatDelta(q0, q1, dt) == omegaOfTurn(quatMultiply(q1, quatConjugate(q0)), dt)

\* ---------------------------------------------------------- CubeRigidbody

\* isImmovable: !(mass > 0).
isImmovable(rb) == ~RGt(rb.mass, R(0))

\* (x > 0) ? 1 / x : 0
reciprocalOrZero(x) == IF RGt(x, R(0)) THEN RDiv(R(1), x) ELSE R(0)

\* I0^{-1}: each diagonal entry of the inertia tensor reciprocated, 0 when it
\* is not > 0.
I0inv(rb) ==
    mat3Diag(reciprocalOrZero(rb.InertiaTensor[1][1]),
             reciprocalOrZero(rb.InertiaTensor[2][2]),
             reciprocalOrZero(rb.InertiaTensor[3][3]))

\* R * I * R^T: the body-frame tensor I in the world frame.
worldTensor(Rm, I) == mat3Multiply(mat3Multiply(Rm, I), mat3Transpose(Rm))

\* refreshInertiaCaches of a movable body, Rm the rotation matrix of its
\* orientation.
refreshRotated(rb, Rm, updateAngularMomentum) ==
    [rb EXCEPT !.rotationMatrix = Rm,
               !.Iinv = worldTensor(Rm, I0inv(rb)),
               !.angularMomentum =
                   IF updateAngularMomentum
                   THEN vec3TransformMat3(rb.angularVelocity,
                                          worldTensor(Rm, rb.InertiaTensor))
                   ELSE rb.angularMomentum]

\* refreshInertiaCaches(updateAngularMomentum): the body afterwards.  The
\* position-based version of the class is the case updateAngularMomentum = FALSE.
refreshInertiaCaches(rb, updateAngularMomentum) ==
    IF RLe(rb.mass, R(0))
    THEN [rb EXCEPT !.InertiaTensor = mat3Diag(R(0), R(0), R(0)),
                    !.Iinv = mat3Diag(R(0), R(0), R(0))]
    ELSE refreshRotated(rb, mat3FromQuat(rb.rotation), updateAngularMomentum)

\* The fields of a body constructed with these values, before the inertia
\* caches and the momenta are computed.
newBody(sz, mass, pos, rot, vel, w) ==
    [ forces |-> <<>>,
      position |-> pos,
      rotation |-> rot,
      rotationMatrix |-> mat3Identity,
      velocity |-> vel,
      angularVelocity |-> w,
      previousVelocities |-> <<vel>>,
      previousAngularVelocities |-> <<w>>,
      initialPosition |-> pos,
      initialRotation |-> rot,
      inertialPosition |-> pos,
      inertialRotation |-> rot,
      size |-> sz,
      mass |-> mass,
      linearMomentum |-> Zero3,
      angularMomentum |-> Zero3,
      InertiaTensor |->
          mat3Diag(RMul(RMul(Rat(1, 12), mass),
                        RAdd(RMul(sz[2], sz[2]), RMul(sz[3], sz[3]))),
                   RMul(RMul(Rat(1, 12), mass),
                        RAdd(RMul(sz[1], sz[1]), RMul(sz[3], sz[3]))),
                   RMul(RMul(Rat(1, 12), mass),
                        RAdd(RMul(sz[1], sz[1]), RMul(sz[2], sz[2])))),
      Iinv |-> mat3Identity,
      forceAccum |-> Zero3,
      torqueAccum |-> Zero3 ]

\* this.linearMomentum = vec3.scale(vec3.create(), this.velocity, this.mass)
withLinearMomentum(rb) == [rb EXCEPT !.linearMomentum = vec3Scale(rb.velocity, rb.mass)]

\* new CubeRigidbody(size, density, friction, position, velocity,
\* angularVelocity, rotation, ...): the body constructed.
CubeRigidbody(size, density, position, velocity, angularVelocity, rotation) ==
    withLinearMomentum(
        refreshInertiaCaches(
            newBody(vec3FromBabylon(size),
                    RMul(density, RMul(RMul(size.x, size.y), size.z)),
                    vec3FromBabylon(position),
                    quatFromBabylon(rotation),
                    vec3FromBabylon(velocity),
                    vec3FromBabylon(angularVelocity)),
            TRUE))

\* setRotation without the call of refreshInertiaCaches: the world inertia
\* tensors stay those of the old orientation.
setRotationStale(rb, q, updateAngularMomentum) ==
    [rb EXCEPT !.rotation = quatFromBabylon(q)]

\* setRotation(q, updateAngularMomentum)
setRotation(rb, q, updateAngularMomentum) ==
    refreshInertiaCaches([rb EXCEPT !.rotation = quatFromBabylon(q)],
                         updateAngularMomentum)

\* applyImpulse, the momenta after the impulse: p' = p + J, L' = L + r x J.
withMomenta(rb, p, L) ==
    [rb EXCEPT !.linearMomentum = p,
               !.velocity = vec3Scale(p, RDiv(R(1), rb.mass)),
               !.angularMomentum = L,
               !.angularVelocity = vec3TransformMat3(L, rb.Iinv)]

\* applyImpulse(pointWorld, impulseWorld)
applyImpulse(rb, pointWorld, impulseWorld) ==
    IF isImmovable(rb) THEN rb
    ELSE withMomenta(rb,
                     vec3Add(rb.linearMomentum, vec3FromBabylon(impulseWorld)),
                     vec3Add(rb.angularMomentum,
                             vec3Cross(vec3Subtract(vec3FromBabylon(pointWorld),
                                                    rb.position),
                                       vec3FromBabylon(impulseWorld))))

\* addForce(forceWorld), of the position-based version
addForce(rb, forceWorld) == [rb EXCEPT !.forceAccum = vec3Add(rb.forceAccum, forceWorld)]

\* addTorque(torqueWorld)
addTorque(rb, torqueWorld) ==
    [rb EXCEPT !.torqueAccum = vec3Add(rb.torqueAccum, torqueWorld)]

\* addForceAtPoint(forceWorld, pointWorld), of the momentum-based version
addForceAtPoint(rb, forceWorld, pointWorld) ==
    addTorque(rb, vec3Cross(vec3Subtract(vec3FromBabylon(pointWorld), rb.position),
                            vec3FromBabylon(forceWorld)))

\* addForceAtPoint(forceWorld, pointWorld), of the position-based version
addForceAtPointPositionBased(rb, forceWorld, pointWorld) ==
    addTorque(addForce(rb, forceWorld),
              vec3Cross(vec3Subtract(pointWorld, rb.position), forceWorld))

\* clearAccumulators that clears the force accumulator alone: a torque stays
\* pending after the step that used it.
clearAccumulatorsForceOnly(rb) == [rb EXCEPT !.forceAccum = Zero3]

\* clearAccumulators()
clearAccumulators(rb) == [rb EXCEPT !.torqueAccum = Zero3, !.forceAccum = Zero3]

\* integrateOrientation ending in refreshInertiaCaches(true): the angular
\* momentum is recomputed from the angular velocity.
integrateOrientationRecomputing(rb, dt) ==
    IF vec3SquaredLength(rb.angularVelocity) = R(0) THEN rb
    ELSE refreshInertiaCaches(
             [rb EXCEPT !.rotation =
                  quatNormalize(
                      quatScaleAndAdd(rb.rotation,
                                      quatDerivative(rb.rotation, rb.angularVelocity),
                                      dt))],
             TRUE)

\* integrateOrientation(dt), of the momentum-based version
integrateOrientation(rb, dt) ==
    IF vec3SquaredLength(rb.angularVelocity) = R(0) THEN rb
    ELSE refreshInertiaCaches(
             [rb EXCEPT !.rotation =
                  quatNormalize(
                      quatScaleAndAdd(rb.rotation,
                                      quatDerivative(rb.rotation, rb.angularVelocity),
                                      dt))],
             FALSE)

\* ----------------------------------------------------------------- Solver

\* public gravity = vec3.fromValues(0, -9.81, 0)
gravity == <<R(0), Rat(-981, 100), R(0)>>

\* The capacity of previousVelocities and previousAngularVelocities.
HistoryCap == 10

\* Math.max(dt, 1e-6)
MinDtDenominator == 1000000

\* A history that is never shifted.
cappedNever(h) == h

\* shift() when the length exceeds the capacity.
capped(h) == IF Len(h) > HistoryCap THEN Tail(h) ELSE h

\* push(v), then shift() when the length exceeds the capacity.
pushHistory(h, v) == capped(Append(h, v))

\* The newest entry of previousVelocities, the velocity itself when there is
\* none.
prevVelocity(rb) ==
    IF Len(rb.previousVelocities) > 0
    THEN rb.previousVelocities[Len(rb.previousVelocities)]
    ELSE rb.velocity

\* accelWeight = Math.max(0, Math.min(1, accelExt / gLen)), 0 when that is not
\* finite.
finiteOrZero(x) == IF IsFinite(x) THEN x ELSE R(0)

\* Adaptive warm start: how much of gravity the first guess of the position
\* takes, from the acceleration of the last step along gravity.
accelWeight(rb, dt) ==
    IF RGt(vec3Length(gravity), R(0))
    THEN finiteOrZero(
             RMax(R(0),
                  RMin(R(1),
                       RDiv(vec3Dot(vec3Scale(vec3Subtract(rb.velocity, prevVelocity(rb)),
                                              RDiv(R(1),
                                                   RMax(dt, Rat(1, MinDtDenominator)))),
                                    vec3Scale(gravity,
                                              RDiv(R(1), vec3Length(gravity)))),
                            vec3Length(gravity)))))
    ELSE R(0)

\* step, first loop, after refreshInertiaCaches: the rotational prediction
\* and the warm start of the position.
stepWarmStart(rb, dt) ==
    [rb EXCEPT
        !.inertialRotation =
            integrateQuat(rb.rotation,
                          vec3ScaleAndAdd(rb.angularVelocity,
                                          vec3TransformMat3(rb.torqueAccum, rb.Iinv),
                                          dt),
                          dt),
        !.position =
            vec3ScaleAndAdd(vec3ScaleAndAdd(rb.initialPosition, rb.velocity, dt),
                            gravity, RMul(RMul(accelWeight(rb, dt), dt), dt))]

\* step, first loop, past "if (rb.isImmovable) continue": the translational
\* prediction, refreshInertiaCaches, the rotational prediction and the warm
\* start.
stepPredictMovable(rb, dt) ==
    stepWarmStart(
        refreshInertiaCaches(
            [rb EXCEPT
                !.initialPosition = rb.position,
                !.initialRotation = rb.rotation,
                !.inertialPosition =
                    vec3ScaleAndAdd(
                        vec3ScaleAndAdd(rb.position, rb.velocity, dt),
                        vec3ScaleAndAdd(gravity, rb.forceAccum, RDiv(R(1), rb.mass)),
                        RMul(dt, dt))],
            FALSE),
        dt)

\* The first loop of step without "if (rb.isImmovable) continue": immovable
\* bodies are predicted like the others.
stepPredictUnguarded(rb, dt) == stepPredictMovable(rb, dt)

\* step, first loop: the body of one iteration (prediction and warm start).
stepPredict(rb, dt) == IF isImmovable(rb) THEN rb ELSE stepPredictMovable(rb, dt)

\* A solver loop that leaves the warm-started position and the old rotation.
stepSolveSkipped(rb) == rb

\* step, solver loop: the body of one iteration.
stepSolve(rb) ==
    IF isImmovable(rb) THEN rb
    ELSE [rb EXCEPT !.position = rb.inertialPosition, !.rotation = rb.inertialRotation]

\* step, last loop: the end-of-step velocities of a body and the clearing of
\* its accumulators, rb being the body with its history pushed.
stepVelocities(rb, dt) ==
    clearAccumulators(
        IF ~isImmovable(rb)
        THEN [rb EXCEPT
                 !.velocity =
                     vec3Scale(vec3Subtract(rb.position, rb.initialPosition),
                               RDiv(R(1), dt)),
                 !.angularVelocity =
                     omegaFromQuatDelta(rb.initialRotation, rb.rotation, dt)]
        ELSE rb)

\* step, last loop: the body of one iteration (history, end-of-step velocities,
\* accumulators).
stepEnd(rb, dt) ==
    stepVelocities(
        [rb EXCEPT
            !.previousVelocities = pushHistory(rb.previousVelocities, rb.velocity),
            !.previousAngularVelocities =
                pushHistory(rb.previousAngularVelocities, rb.angularVelocity)],
        dt)

\* for (const rb of this.rigidbodies) ..., from entry i on: entry after entry,
\* so that a body listed twice is visited twice.
RECURSIVE stepPredictLoop(_, _, _, _)
stepPredictLoop(bs, rbs, i, dt) ==
    IF i > Len(rbs) THEN bs
    ELSE stepPredictLoop([bs EXCEPT ![rbs[i]] = stepPredict(bs[rbs[i]], dt)],
                         rbs, i + 1, dt)

RECURSIVE stepSolveLoop(_, _, _)
stepSolveLoop(bs, rbs, i) ==
    IF i > Len(rbs) THEN bs
    ELSE stepSolveLoop([bs EXCEPT ![rbs[i]] = stepSolve(bs[rbs[i]])], rbs, i + 1)

RECURSIVE stepEndLoop(_, _, _, _)
stepEndLoop(bs, rbs, i, dt) ==
    IF i > Len(rbs) THEN bs
    ELSE stepEndLoop([bs EXCEPT ![rbs[i]] = stepEnd(bs[rbs[i]], dt)], rbs, i + 1, dt)

\* step(dt): the bodies afterwards.
step(bs, rbs, dt) ==
    stepEndLoop(stepSolveLoop(stepPredictLoop(bs, rbs, 1, dt), rbs, 1), rbs, 1, dt)

\* applyImpulseAtPoint, after refreshInertiaCaches: w += Iinv (r x J).
spinUp(rb, pointWorld, J) ==
    [rb EXCEPT !.angularVelocity =
        vec3Add(rb.angularVelocity,
                vec3TransformMat3(vec3Cross(vec3Subtract(pointWorld, rb.position), J),
                                  rb.Iinv))]

\* applyImpulseAtPoint(pointWorld, J, rb): the body afterwards.
applyImpulseAtPoint(pointWorld, J, rb) ==
    spinUp(refreshInertiaCaches(
               [rb EXCEPT !.velocity =
                    vec3ScaleAndAdd(rb.velocity, J, RDiv(R(1), rb.mass))], FALSE),
           pointWorld, J)

\* applyImpulseAtCenterALL(J), from entry i of the list on.
RECURSIVE applyImpulseAtCenterALL(_, _, _, _)
applyImpulseAtCenterALL(bs, rbs, i, J) ==
    IF i > Len(rbs) THEN bs
    ELSE applyImpulseAtCenterALL(
             [bs EXCEPT ![rbs[i]] = applyImpulseAtPoint(bs[rbs[i]].position, J, bs[rbs[i]])],
             rbs, i + 1, J)

\* The events of one update call, in the order they happen.
StepEvent == <<"step", "">>

\* rb.draw(scene)
DrawEvent(b) == <<"draw", b>>

\* fixedDt == null
Null == <<0, -1>>

\* The substep loop with "steps <= this.maxSubsteps": one step more than the
\* cap allows.
RECURSIVE substepLoopInclusive(_, _, _, _, _, _, _)
substepLoopInclusive(bs, rbs, acc, n, ev, dt, maxSub) ==
    IF RGe(acc, dt) /\ n <= maxSub
    THEN substepLoopInclusive(step(bs, rbs, dt), rbs, RSub(acc, dt), n + 1,
                              Append(ev, StepEvent), dt, maxSub)
    ELSE [bodies |-> bs, accum |-> acc, n |-> n, events |-> ev]

\* The substep loop with "this._accum > this.fixedDt": a whole step left in
\* the accumulator is not taken.
RECURSIVE substepLoopStrict(_, _, _, _, _, _, _)
substepLoopStrict(bs, rbs, acc, n, ev, dt, maxSub) ==
    IF RGt(acc, dt) /\ n < maxSub
    THEN substepLoopStrict(step(bs, rbs, dt), rbs, RSub(acc, dt), n + 1,
                           Append(ev, StepEvent), dt, maxSub)
    ELSE [bodies |-> bs, accum |-> acc, n |-> n, events |-> ev]

\* update, the substep loop: the bodies, the accumulator, the number of steps so
\* far and the events so far, when the loop ends.
RECURSIVE substepLoop(_, _, _, _, _, _, _)
substepLoop(bs, rbs, acc, n, ev, dt, maxSub) ==
    IF RGe(acc, dt) /\ n < maxSub
    THEN substepLoop(step(bs, rbs, dt), rbs, RSub(acc, dt), n + 1,
                     Append(ev, StepEvent), dt, maxSub)
    ELSE [bodies |-> bs, accum |-> acc, n |-> n, events |-> ev]

\* A draw loop that runs only when a step ran.
drawLoopIfStepped(ev, rbs) ==
    IF ev = <<>> THEN ev ELSE ev \o [i \in 1..Len(rbs) |-> DrawEvent(rbs[i])]

\* update, the draw loop: one draw per entry of the list.
drawLoop(ev, rbs) == ev \o [i \in 1..Len(rbs) |-> DrawEvent(rbs[i])]

\* The time left when the cap ends the loop, dropped.
dropBacklog(r, dt) == [r EXCEPT !.accum = IF RGe(r.accum, dt) THEN R(0) ELSE r.accum]

\* The physics of a frame that drops the time the cap leaves.
advanceDropping(bs, rbs, acc, dt, maxSub, realDt) ==
    IF dt # Null
    THEN dropBacklog(substepLoop(bs, rbs, RAdd(acc, realDt), 0, <<>>, dt, maxSub), dt)
    ELSE [bodies |-> step(bs, rbs, realDt), accum |-> acc, n |-> 1,
          events |-> <<StepEvent>>]

\* update, the physics of the frame: the substep loop under a fixed step,
\* one step of the frame's own length under none.
advance(bs, rbs, acc, dt, maxSub, realDt) ==
    IF dt # Null
    THEN substepLoop(bs, rbs, RAdd(acc, realDt), 0, <<>>, dt, maxSub)
    ELSE [bodies |-> step(bs, rbs, realDt), accum |-> acc, n |-> 1,
          events |-> <<StepEvent>>]

\* update, the draws after the physics.
drawAll(r, rbs) == [r EXCEPT !.events = drawLoop(r.events, rbs)]

\* update(), with engine.getDeltaTime() = deltaMs: the bodies and the
\* accumulator afterwards, the number of steps executed and the events.
update(bs, rbs, acc, dt, maxSub, deltaMs) ==
    drawAll(advance(bs, rbs, acc, dt, maxSub, RDiv(deltaMs, R(1000))), rbs)

\* Solver.instance before the first successful getInstance, and a missing
\* (null, undefined) context argument.
Missing == "null"

NoInstance == [context |-> Missing, serial |-> 0]

\* new Solver(bcontext), the serial-th Solver constructed: the fields as their
\* initialisers leave them.
newSolver(bcontext, serial) ==
    [instance |-> [context |-> bcontext, serial |-> serial],
     rigidbodies |-> <<>>, accum |-> R(0), fixedDt |-> Rat(1, 60), maxSubsteps |-> 2,
     threw |-> FALSE]

\* getInstance that constructs a Solver at every call.
getInstanceAnew(s, bcontext) ==
    IF bcontext = Missing
    THEN [s EXCEPT !.threw = TRUE]
    ELSE newSolver(bcontext, s.instance.serial + 1)

\* Solver.getInstance(bcontext), s the Solver.instance and the fields of the
\* Solver it refers to: the same afterwards, and whether the call threw.
getInstance(s, bcontext) ==
    IF s.instance = NoInstance
    THEN IF bcontext = Missing
         THEN [s EXCEPT !.threw = TRUE]
         ELSE newSolver(bcontext, s.instance.serial + 1)
    ELSE [s EXCEPT !.threw = FALSE]

\* An addRigidbody that leaves a body already listed where it is.
addRigidbodyOnce(rbs, b) ==
    IF \E i \in 1..Len(rbs) : rbs[i] = b THEN rbs ELSE Append(rbs, b)

\* addRigidbody(rb): the list afterwards.
addRigidbody(rbs, b) == Append(rbs, b)

\* indexOf(rb): the first index holding b, 0 when there is none.
indexOf(rbs, b) ==
    IF \E i \in 1..Len(rbs) : rbs[i] = b
    THEN CHOOSE i \in 1..Len(rbs) : rbs[i] = b /\ \A j \in 1..(i - 1) : rbs[j] # b
    ELSE 0

\* splice(index, 1)
splice(rbs, index) ==
    [i \in 1..(Len(rbs) - 1) |-> IF i < index THEN rbs[i] ELSE rbs[i + 1]]

\* removeRigidbody(rb): the list afterwards.
removeRigidbody(rbs, b) ==
    IF indexOf(rbs, b) # 0 THEN splice(rbs, indexOf(rbs, b)) ELSE rbs

\* ------------------------------------------------------------------ state

VARIABLES
    bodies,        \* the CubeRigidbody objects constructed, by name
    rigidbodies,   \* Solver.rigidbodies: the names listed, in order
    accum,         \* Solver._accum
    fixedDt,       \* Solver.fixedDt
    maxSubsteps,   \* Solver.maxSubsteps
    call,          \* the last call made, with its arguments and what it did
    nUpdates,      \* update calls made so far
    nCalls,        \* other calls made so far
    instance       \* Solver.instance

vars ==
    <<bodies, rigidbodies, accum, fixedDt, maxSubsteps, call, nUpdates, nCalls,
      instance>>

BodyIds == {"floor", "cube"}

\* const solver = Solver.getInstance(bContext), as app.ts begins.
AppSolver == [context |-> "canvas", serial |-> 1]

\* ------------------------------------------------------------------ bounds

\* Calls made in one run of Spec.
MaxOps == 2

\* update calls made in one run of SpecSched.
MaxFrames == 2

\* addRigidbody and removeRigidbody calls made in one run of SpecSched.
MaxEdits == 1

\* Entries of Solver.rigidbodies.
MaxListLen == 3

\* ------------------------------------------------------------------ inputs

\* public fixedDt: number = 1 / 60
DefaultFixedDt == Rat(1, 60)

\* public maxSubsteps: number = 2
DefaultMaxSubsteps == 2

\* The constructor arguments of the bodies: the floor and cube1 of app.ts.
AppFloor ==
    [size |-> Vector3(R(10), R(1), R(10)), density |-> R(0),
     position |-> Vector3(R(0), Rat(-1, 2), R(0)),
     velocity |-> Vector3(R(0), R(0), R(0)),
     angularVelocity |-> Vector3(R(0), R(0), R(0)),
     rotation |-> Quaternion(R(0), R(0), R(0), R(1))]

AppCube ==
    [size |-> Vector3(R(1), R(1), R(1)), density |-> R(1),
     position |-> Vector3(R(0), R(3), R(0)),
     velocity |-> Vector3(R(0), R(10), R(0)),
     angularVelocity |-> Vector3(R(0), R(0), R(0)),
     rotation |-> Quaternion(R(0), R(0), R(0), R(1))]

\* A box of negative density, constructed with a velocity.
HollowBox ==
    [size |-> Vector3(R(1), R(1), R(1)), density |-> R(-1),
     position |-> Vector3(R(0), R(0), R(0)),
     velocity |-> Vector3(R(1), R(0), R(0)),
     angularVelocity |-> Vector3(R(0), R(0), R(0)),
     rotation |-> Quaternion(R(0), R(0), R(0), R(1))]

\* A spinning box whose three sides differ, given a rotation of norm 2.
Brick ==
    [size |-> Vector3(R(1), R(2), R(3)), density |-> R(2),
     position |-> Vector3(R(2), R(3), R(0)),
     velocity |-> Vector3(R(0), R(0), R(0)),
     angularVelocity |-> Vector3(R(120), R(120), R(120)),
     rotation |-> Quaternion(R(0), R(0), R(0), R(2))]

\* The bodies constructed: the scene of app.ts, and a scene of two other boxes.
\* No operation makes one body act on another.
Scenes ==
    { [b \in BodyIds |-> IF b = "floor" THEN AppFloor ELSE AppCube],
      [b \in BodyIds |-> IF b = "floor" THEN HollowBox ELSE Brick] }

construct(a) ==
    CubeRigidbody(a.size, a.density, a.position, a.velocity, a.angularVelocity,
                  a.rotation)

\* engine.getDeltaTime(), in milliseconds: one fixed step, and a stall of 60.
Deltas == {Rat(50, 3), R(1000)}

\* An impulse and where it is applied, relative to the centre of the body: the
\* impulse of app.ts at the centre, and one off the centre.
Pushes ==
    { [offset |-> V3(0, 0, 0), J |-> V3(0, 5, 0)],
      [offset |-> <<Rat(1, 2), Rat(-1, 2), R(0)>>, J |-> V3(40, 0, -40)] }

AppImpulse == V3(0, 5, 0)

Torques == {V3(1200, 1200, 1200)}

Forces == {V3(12, 0, 0)}

\* The arguments of setRotation: a quaternion of norm 2, one of norm 1, and
\* the zero quaternion.
Turns ==
    { [q |-> Quaternion(R(1), R(1), R(1), R(1)), flag |-> FALSE],
      [q |-> Quaternion(Rat(-1, 2), Rat(-1, 2), Rat(-1, 2), Rat(1, 2)), flag |-> TRUE],
      [q |-> Quaternion(R(0), R(0), R(0), R(0)), flag |-> FALSE] }

\* The settings of the public fields fixedDt and maxSubsteps before the first
\* update: the defaults, other caps, another step, and the variable step.
Settings ==
    { [fixedDt |-> DefaultFixedDt, maxSubsteps |-> DefaultMaxSubsteps],
      [fixedDt |-> DefaultFixedDt, maxSubsteps |-> 1],
      [fixedDt |-> DefaultFixedDt, maxSubsteps |-> 3],
      [fixedDt |-> Rat(1, 100), maxSubsteps |-> DefaultMaxSubsteps],
      [fixedDt |-> Null, maxSubsteps |-> DefaultMaxSubsteps] }

\* engine.getDeltaTime() in SpecSched, in milliseconds: no time, less than a
\* step, one step of 1/60 s, a stall of 60 of them.
FrameDeltas == {R(0), R(5), Rat(50, 3), R(1000)}

NoCall ==
    [op |-> "none", rb |-> "", n |-> 0, accumBefore |-> R(0), delta |-> R(0),
     events |-> <<>>, point |-> Zero3, impulse |-> Zero3,
     q |-> quatIdentity, flag |-> FALSE]

Init ==
    /\ \E scene \in Scenes :
           bodies = [b \in BodyIds |-> construct(scene[b])]
    /\ rigidbodies = <<"floor", "cube">>
    /\ accum = R(0)
    /\ fixedDt = DefaultFixedDt
    /\ maxSubsteps = DefaultMaxSubsteps
    /\ call = NoCall
    /\ nUpdates = 0
    /\ nCalls = 0
    /\ instance = AppSolver

\* The scene of app.ts under each setting of the Solver.
InitSched ==
    /\ bodies = [b \in BodyIds |-> construct(IF b = "floor" THEN AppFloor ELSE AppCube)]
    /\ rigidbodies = <<"floor", "cube">>
    /\ accum = R(0)
    /\ \E s \in Settings : fixedDt = s.fixedDt /\ maxSubsteps = s.maxSubsteps
    /\ call = NoCall
    /\ nUpdates = 0
    /\ nCalls = 0
    /\ instance = AppSolver

\* ------------------------------------------- where the arithmetic is exact
\* Math.sqrt is modelled on the squares of rationals only: a call is made
\* where every quaternion it normalizes has a rational norm.

NormExact(q) == ~RGt(quatSquaredLength(q), R(0)) \/ HasSqrt(quatSquaredLength(q))

TurnExact(q, w, dt) == vec3SquaredLength(w) = R(0) \/ NormExact(quatEulerStep(q, w, dt))

\* The rotational prediction of a body whose inertia caches are fresh.
predictExact(rb, dt) ==
    \/ isImmovable(rb)
    \/ TurnExact(rb.rotation,
                 vec3ScaleAndAdd(rb.angularVelocity,
                                 vec3TransformMat3(rb.torqueAccum, rb.Iinv), dt),
                 dt)

stepExact(bs, rbs, dt) ==
    \A i \in 1..Len(rbs) : predictExact(refreshInertiaCaches(bs[rbs[i]], FALSE), dt)

RECURSIVE substepsExact(_, _, _, _, _, _)
substepsExact(bs, rbs, acc, n, dt, maxSub) ==
    IF RGe(acc, dt) /\ n < maxSub
    THEN /\ stepExact(bs, rbs, dt)
         /\ substepsExact(step(bs, rbs, dt), rbs, RSub(acc, dt), n + 1, dt, maxSub)
    ELSE TRUE

updateExact(deltaMs) ==
    IF fixedDt # Null
    THEN substepsExact(bodies, rigidbodies, RAdd(accum, RDiv(deltaMs, R(1000))), 0,
                       fixedDt, maxSubsteps)
    ELSE stepExact(bodies, rigidbodies, RDiv(deltaMs, R(1000)))

\* ---------------------------------------------------------------- actions
\* One action per call a client of the Solver and of the bodies can make.

CallUpdate(deltaMs) ==
    /\ updateExact(deltaMs) = TRUE
    /\ \E r \in {update(bodies, rigidbodies, accum, fixedDt, maxSubsteps, deltaMs)} :
           /\ bodies' = r.bodies
           /\ accum' = r.accum
           /\ call' = [NoCall EXCEPT !.op = "update", !.n = r.n, !.accumBefore = accum,
                                     !.delta = deltaMs, !.events = r.events]
    /\ nUpdates' = nUpdates + 1
    /\ UNCHANGED <<rigidbodies, fixedDt, maxSubsteps, nCalls, instance>>

CallAddRigidbody(b) ==
    /\ rigidbodies' = addRigidbody(rigidbodies, b)
    /\ call' = [NoCall EXCEPT !.op = "addRigidbody", !.rb = b]
    /\ nCalls' = nCalls + 1
    /\ UNCHANGED <<bodies, accum, fixedDt, maxSubsteps, nUpdates, instance>>

CallRemoveRigidbody(b) ==
    /\ rigidbodies' = removeRigidbody(rigidbodies, b)
    /\ call' = [NoCall EXCEPT !.op = "removeRigidbody", !.rb = b]
    /\ nCalls' = nCalls + 1
    /\ UNCHANGED <<bodies, accum, fixedDt, maxSubsteps, nUpdates, instance>>

\* A call that changes body b alone, into rb.
BodyCall(b, rb, c) ==
    /\ bodies' = [bodies EXCEPT ![b] = rb]
    /\ call' = c
    /\ nCalls' = nCalls + 1
    /\ UNCHANGED <<rigidbodies, accum, fixedDt, maxSubsteps, nUpdates, instance>>

CallApplyImpulse(b, offset, J) ==
    \E point \in {vec3Add(bodies[b].position, offset)} :
        BodyCall(b, applyImpulse(bodies[b], vec3ToBabylon(point), vec3ToBabylon(J)),
                 [NoCall EXCEPT !.op = "applyImpulse", !.rb = b, !.point = point,
                                !.impulse = J])

CallApplyImpulseAtPoint(b, offset, J) ==
    \E point \in {vec3Add(bodies[b].position, offset)} :
        BodyCall(b, applyImpulseAtPoint(point, J, bodies[b]),
                 [NoCall EXCEPT !.op = "applyImpulseAtPoint", !.rb = b,
                                !.point = point, !.impulse = J])

CallApplyImpulseAtCenterALL(J) ==
    /\ bodies' = applyImpulseAtCenterALL(bodies, rigidbodies, 1, J)
    /\ call' = [NoCall EXCEPT !.op = "applyImpulseAtCenterALL", !.impulse = J]
    /\ nCalls' = nCalls + 1
    /\ UNCHANGED <<rigidbodies, accum, fixedDt, maxSubsteps, nUpdates, instance>>

CallAddTorque(b, torque) ==
    BodyCall(b, addTorque(bodies[b], torque),
             [NoCall EXCEPT !.op = "addTorque", !.rb = b, !.impulse = torque])

CallAddForce(b, force) ==
    BodyCall(b, addForce(bodies[b], force),
             [NoCall EXCEPT !.op = "addForce", !.rb = b, !.impulse = force])

CallSetRotation(b, q, updateAngularMomentum) ==
    BodyCall(b, setRotation(bodies[b], q, updateAngularMomentum),
             [NoCall EXCEPT !.op = "setRotation", !.rb = b,
                            !.q = <<q.x, q.y, q.z, q.w>>, !.flag = updateAngularMomentum])

CallRefreshInertiaCaches(b, updateAngularMomentum) ==
    BodyCall(b, refreshInertiaCaches(bodies[b], updateAngularMomentum),
             [NoCall EXCEPT !.op = "refreshInertiaCaches", !.rb = b,
                            !.flag = updateAngularMomentum])

CallIntegrateOrientation(b, dt) ==
    /\ TurnExact(bodies[b].rotation, bodies[b].angularVelocity, dt) = TRUE
    /\ BodyCall(b, integrateOrientation(bodies[b], dt),
                [NoCall EXCEPT !.op = "integrateOrientation", !.rb = b, !.delta = dt])

Next ==
    \/ \E d \in Deltas : nUpdates + nCalls < MaxOps /\ CallUpdate(d)
    \/ \E b \in BodyIds :
           /\ nUpdates + nCalls < MaxOps
           /\ Len(rigidbodies) < MaxListLen
           /\ CallAddRigidbody(b)
    \/ \E b \in BodyIds : nUpdates + nCalls < MaxOps /\ CallRemoveRigidbody(b)
    \/ \E b \in BodyIds, p \in Pushes :
           nUpdates + nCalls < MaxOps /\ CallApplyImpulse(b, p.offset, p.J)
    \/ \E b \in BodyIds, p \in Pushes :
           nUpdates + nCalls < MaxOps /\ CallApplyImpulseAtPoint(b, p.offset, p.J)
    \/ nUpdates + nCalls < MaxOps /\ CallApplyImpulseAtCenterALL(AppImpulse)
    \/ \E b \in BodyIds, t \in Torques :
           nUpdates + nCalls < MaxOps /\ CallAddTorque(b, t)
    \/ \E b \in BodyIds, f \in Forces :
           nUpdates + nCalls < MaxOps /\ CallAddForce(b, f)
    \/ \E b \in BodyIds, t \in Turns :
           nUpdates + nCalls < MaxOps /\ CallSetRotation(b, t.q, t.flag)
    \/ \E b \in BodyIds, u \in BOOLEAN :
           nUpdates + nCalls < MaxOps /\ CallRefreshInertiaCaches(b, u)
    \/ \E b \in BodyIds :
           nUpdates + nCalls < MaxOps /\ CallIntegrateOrientation(b, DefaultFixedDt)

\* Every call on the bodies and on the Solver, the Solver as constructed.
Spec == Init /\ [][Next]_vars

NextSched ==
    \/ \E d \in FrameDeltas : nUpdates < MaxFrames /\ CallUpdate(d)
    \/ \E b \in BodyIds :
           /\ nCalls < MaxEdits
           /\ Len(rigidbodies) < MaxListLen
           /\ CallAddRigidbody(b)
    \/ \E b \in BodyIds : nCalls < MaxEdits /\ CallRemoveRigidbody(b)

\* The frames of the render loop, under each setting of the Solver, with the
\* list of bodies edited between frames.
SpecSched == InitSched /\ [][NextSched]_vars

\* ------------------------------------------------- the step being configured
\* fixedDt is a public field: a client sets it by assignment, at any time.

\* Frames and assignments made in one run of SpecConfig.
MaxConfigOps == 3

\* The values assigned to fixedDt: zero, a negative step, and a step of 1/100 s.
ConfiguredSteps == {R(0), Rat(-1, 60), Rat(1, 100)}

\* solver.fixedDt = v
SetFixedDt(v) ==
    /\ fixedDt' = v
    /\ call' = [NoCall EXCEPT !.op = "setFixedDt", !.delta = v]
    /\ nCalls' = nCalls + 1
    /\ UNCHANGED <<bodies, rigidbodies, accum, maxSubsteps, nUpdates, instance>>

\* solver.maxSubsteps = n
SetMaxSubsteps(n) ==
    /\ maxSubsteps' = n
    /\ call' = [NoCall EXCEPT !.op = "setMaxSubsteps", !.n = n]
    /\ nCalls' = nCalls + 1
    /\ UNCHANGED <<bodies, rigidbodies, accum, fixedDt, nUpdates, instance>>

NextConfig ==
    \/ \E v \in ConfiguredSteps : nUpdates + nCalls < MaxConfigOps /\ SetFixedDt(v)
    \/ \E n \in 1..3 : nUpdates + nCalls < MaxConfigOps /\ SetMaxSubsteps(n)
    \/ \E d \in FrameDeltas : nUpdates + nCalls < MaxConfigOps /\ CallUpdate(d)

\* The frames of the render loop with fixedDt and maxSubsteps assigned between
\* them, the Solver and the scene as app.ts sets them up.
SpecConfig == Init /\ [][NextConfig]_vars

\* ------------------------------------------------------- a run of many steps

\* update calls made in one run of SpecSteps.
MaxStepFrames == 4

\* addTorque and addForce calls made in one run of SpecSteps.
MaxStepPushes == 1

\* solver.maxSubsteps = 3, set before the first frame: four frames run twelve
\* steps.
StepsPerFrame == 3

\* engine.getDeltaTime() in SpecSteps, in milliseconds: no time, one step of
\* 1/60 s, a stall of 60 of them.
StepDeltas == {R(0), Rat(50, 3), R(1000)}

InitSteps ==
    /\ \E scene \in Scenes :
           bodies = [b \in BodyIds |-> construct(scene[b])]
    /\ rigidbodies = <<"floor", "cube">>
    /\ accum = R(0)
    /\ fixedDt = DefaultFixedDt
    /\ maxSubsteps = StepsPerFrame
    /\ call = NoCall
    /\ nUpdates = 0
    /\ nCalls = 0
    /\ instance = AppSolver

NextSteps ==
    \/ \E d \in StepDeltas : nUpdates < MaxStepFrames /\ CallUpdate(d)
    \/ \E t \in Torques : nCalls < MaxStepPushes /\ CallAddTorque("cube", t)
    \/ \E f \in Forces : nCalls < MaxStepPushes /\ CallAddForce("cube", f)

\* Frame after frame on two listed bodies, each listed once, a torque or a
\* force added to the second in between.
SpecSteps == InitSteps /\ [][NextSteps]_vars

\* ------------------------------------------------ the list of bodies edited

\* addRigidbody, removeRigidbody and update calls made in one run of SpecList.
MaxListOps == 3

NextList ==
    \/ \E d \in Deltas : nUpdates + nCalls < MaxListOps /\ CallUpdate(d)
    \/ \E b \in BodyIds :
           /\ nUpdates + nCalls < MaxListOps
           /\ Len(rigidbodies) < MaxListLen
           /\ CallAddRigidbody(b)
    \/ \E b \in BodyIds : nUpdates + nCalls < MaxListOps /\ CallRemoveRigidbody(b)

\* Bodies added to and removed from the list of the Solver between frames.
SpecList == Init /\ [][NextList]_vars

\* ------------------------------------------------- forces applied at a point

\* Calls made in one run of SpecForces.
MaxForceOps == 2

CallAddForceAtPoint(b, force, offset) ==
    \E point \in {vec3Add(bodies[b].position, offset)} :
        BodyCall(b, addForceAtPoint(bodies[b], vec3ToBabylon(force), vec3ToBabylon(point)),
                 [NoCall EXCEPT !.op = "addForceAtPoint", !.rb = b, !.point = point,
                                !.impulse = force])

CallAddForceAtPointPositionBased(b, force, offset) ==
    \E point \in {vec3Add(bodies[b].position, offset)} :
        BodyCall(b, addForceAtPointPositionBased(bodies[b], force, point),
                 [NoCall EXCEPT !.op = "addForceAtPoint", !.rb = b, !.point = point,
                                !.impulse = force, !.flag = TRUE])

NextForces ==
    \/ \E d \in Deltas : nUpdates + nCalls < MaxForceOps /\ CallUpdate(d)
    \/ \E b \in BodyIds, f \in Forces, p \in Pushes :
           nUpdates + nCalls < MaxForceOps /\ CallAddForceAtPoint(b, f, p.offset)
    \/ \E b \in BodyIds, f \in Forces, p \in Pushes :
           /\ nUpdates + nCalls < MaxForceOps
           /\ CallAddForceAtPointPositionBased(b, f, p.offset)
    \/ \E b \in BodyIds, f \in Forces :
           nUpdates + nCalls < MaxForceOps /\ CallAddForce(b, f)
    \/ \E b \in BodyIds, t \in Torques :
           nUpdates + nCalls < MaxForceOps /\ CallAddTorque(b, t)

\* Forces and torques accumulated on the bodies between frames, through
\* addForceAtPoint of either version of the class.
SpecForces == Init /\ [][NextForces]_vars

\* ------------------------------------------------- the one Solver of a page
\* Solver.getInstance called any number of times, with and without a context,
\* between calls on the Solver it returned.

\* getInstance, addRigidbody and update calls made in one run of SpecInstance.
MaxInstanceOps == 4

\* The contexts a caller can hold, and none.
Contexts == {"canvas", "canvas2"}

\* The fields of the Solver that Solver.instance refers to.
TheSolver ==
    [instance |-> instance, rigidbodies |-> rigidbodies, accum |-> accum,
     fixedDt |-> fixedDt, maxSubsteps |-> maxSubsteps, threw |-> FALSE]

CallGetInstance(bcontext) ==
    /\ \E s \in {getInstance(TheSolver, bcontext)} :
           /\ instance' = s.instance
           /\ rigidbodies' = s.rigidbodies
           /\ accum' = s.accum
           /\ fixedDt' = s.fixedDt
           /\ maxSubsteps' = s.maxSubsteps
           /\ call' = [NoCall EXCEPT !.op = "getInstance", !.rb = bcontext,
                                     !.flag = s.threw]
    /\ nCalls' = nCalls + 1
    /\ UNCHANGED <<bodies, nUpdates>>

\* The page before its first getInstance: the bodies constructed, no Solver.
InitInstance ==
    /\ bodies = [b \in BodyIds |-> construct(IF b = "floor" THEN AppFloor ELSE AppCube)]
    /\ rigidbodies = <<>>
    /\ accum = R(0)
    /\ fixedDt = DefaultFixedDt
    /\ maxSubsteps = DefaultMaxSubsteps
    /\ call = NoCall
    /\ nUpdates = 0
    /\ nCalls = 0
    /\ instance = NoInstance

NextInstance ==
    \/ /\ nUpdates + nCalls < MaxInstanceOps
       /\ \E c \in Contexts \cup {Missing} : CallGetInstance(c)
    \/ /\ nUpdates + nCalls < MaxInstanceOps
       /\ instance # NoInstance
       /\ \E b \in BodyIds : CallAddRigidbody(b)
    \/ /\ nUpdates + nCalls < MaxInstanceOps
       /\ instance # NoInstance
       /\ \E d \in Deltas : CallUpdate(d)

SpecInstance == InitInstance /\ [][NextInstance]_vars

\* ------------------------------------------------ a backlog being drained
\* The render loop after a stall: one frame of a second, then frames without
\* end whose deltas fit the cap. The floor alone is listed, which no step moves.

\* Frames of a second made in one run of SpecDrain.
MaxSpikes == 1

\* The stalled frame, in milliseconds.
SpikeDelta == R(1000)

\* The frame deltas the render loop delivers after the stall under a cap of m
\* steps: those of at most (m - 1) * fixedDt, and fixedDt itself under a cap
\* of one.
DrainDeltas(m) ==
    IF m = 1
    THEN {RMul(fixedDt, R(1000))}
    ELSE {d \in {R(0), R(5), Rat(50, 3), Rat(100, 3)} :
              RLe(RDiv(d, R(1000)), RMul(R(m - 1), fixedDt))}

\* One frame of the render loop: update() as the scene's before-render hook
\* calls it, at every frame.
Frame(deltaMs) ==
    /\ updateExact(deltaMs) = TRUE
    /\ \E r \in {update(bodies, rigidbodies, accum, fixedDt, maxSubsteps, deltaMs)} :
           /\ bodies' = r.bodies
           /\ accum' = r.accum
           /\ call' = [NoCall EXCEPT !.op = "update", !.n = r.n, !.accumBefore = accum,
                                     !.delta = deltaMs, !.events = r.events]
    /\ UNCHANGED <<rigidbodies, fixedDt, maxSubsteps, nUpdates, nCalls, instance>>

InitDrain ==
    /\ bodies = [b \in BodyIds |-> construct(IF b = "floor" THEN AppFloor ELSE AppCube)]
    /\ rigidbodies = <<"floor">>
    /\ accum = R(0)
    /\ fixedDt = DefaultFixedDt
    /\ maxSubsteps \in 1..3
    /\ call = NoCall
    /\ nUpdates = 0
    /\ nCalls = 0
    /\ instance = AppSolver

Frames == \E d \in DrainDeltas(maxSubsteps) : Frame(d)

NextDrain ==
    \/ /\ nUpdates < MaxSpikes
       /\ CallUpdate(SpikeDelta)
    \/ Frames

\* The render loop keeps running: it calls update at every frame, without end.
\* Under a cap of two steps or more some frame always changes the state, so
\* this is WF_vars(Frames) there; under a cap of one a frame of fixedDt can
\* leave every field as it was, and nothing is asked.
RenderLoopRuns == maxSubsteps >= 2 => []<><<Frames>>_vars

SpecDrain == InitDrain /\ [][NextDrain]_vars /\ RenderLoopRuns

\* --------------------------------------- orientations at the range of a double
\* A JavaScript number is a double: 53 bits of mantissa, exponents up to 1023.
\* The numbers above keep every digit and no range; the ones here keep the
\* range.  One is <<s, e>>, the double s * 2^e with s the sign: the powers of
\* two, zero <<0, 0>>, the infinities <<1, 1024>> and <<-1, 1024>>, NaN
\* <<0, 1024>>.  A result that is a double but no power of two is Inexact:
\* the specification below makes no call that meets one.

Inexact == <<2, 0>>

\* s * 2^e as the double nearest to it: an infinity from 2^1024 on, zero
\* below the smallest subnormal 2^-1074.
F64(s, e) ==
    IF s = 0 \/ e < -1074 THEN <<0, 0>>
    ELSE IF e > 1023 THEN <<s, 1024>>
    ELSE <<s, e>>

f64Neg(x) == IF x = Inexact THEN x ELSE <<-x[1], x[2]>>

\* x * y
f64Mul(x, y) ==
    IF x = Inexact \/ y = Inexact THEN Inexact
    ELSE IF x = <<0, 1024>> \/ y = <<0, 1024>> THEN <<0, 1024>>
    ELSE IF x[2] = 1024 \/ y[2] = 1024
         THEN IF x[1] = 0 \/ y[1] = 0 THEN <<0, 1024>> ELSE <<x[1] * y[1], 1024>>
    ELSE F64(x[1] * y[1], x[2] + y[2])

\* x + y: the larger of two powers of two more than a mantissa apart, by
\* rounding to nearest.
f64Add(x, y) ==
    IF x = Inexact \/ y = Inexact THEN Inexact
    ELSE IF x = <<0, 1024>> \/ y = <<0, 1024>> THEN <<0, 1024>>
    ELSE IF x[2] = 1024 /\ y[2] = 1024 THEN (IF x = y THEN x ELSE <<0, 1024>>)
    ELSE IF x[2] = 1024 THEN x
    ELSE IF y[2] = 1024 THEN y
    ELSE IF x[1] = 0 THEN y
    ELSE IF y[1] = 0 THEN x
    ELSE IF x[2] = y[2] THEN (IF x[1] = y[1] THEN F64(x[1], x[2] + 1) ELSE <<0, 0>>)
    ELSE IF x[2] - y[2] >= 55 THEN x
    ELSE IF y[2] - x[2] >= 55 THEN y
    ELSE Inexact

\* Math.sqrt(x)
f64Sqrt(x) ==
    IF x = Inexact THEN Inexact
    ELSE IF x = <<0, 1024>> \/ x[1] < 0 THEN <<0, 1024>>
    ELSE IF x[1] = 0 \/ x[2] = 1024 THEN x
    ELSE IF x[2] % 2 = 0 THEN <<1, x[2] \div 2>>
    ELSE Inexact

\* 1 / x
f64Inverse(x) ==
    IF x = Inexact \/ x = <<0, 1024>> THEN x
    ELSE IF x[1] = 0 THEN <<1, 1024>>
    ELSE IF x[2] = 1024 THEN <<0, 0>>
    ELSE F64(x[1], -x[2])

\* vec3.squaredLength(a)
f64SquaredLength3(a) ==
    f64Add(f64Add(f64Mul(a[1], a[1]), f64Mul(a[2], a[2])), f64Mul(a[3], a[3]))

\* quat.normalize(out, a), len the sum of the four squares.
f64Scaled(a, len) ==
    [i \in 1..4 |-> f64Mul(a[i], IF len # Inexact /\ len[1] > 0 THEN f64Inverse(f64Sqrt(len)) ELSE len)]

f64Normalize(a) ==
    f64Scaled(a, f64Add(f64Add(f64Add(f64Mul(a[1], a[1]), f64Mul(a[2], a[2])),
                               f64Mul(a[3], a[3])),
                        f64Mul(a[4], a[4])))

\* a * b - c * d
f64Det(a, b, c, d) == f64Add(f64Mul(a, b), f64Neg(f64Mul(c, d)))

\* q + 0.5 * (qw * o + c) * dt, one component of the Euler step.
f64Advance(q, qw, o, c, dt) ==
    f64Add(q, f64Mul(f64Mul(<<1, -1>>, f64Add(f64Mul(qw, o), c)), dt))

\* integrateOrientation, the step before the normalization: q + q_dot * dt with
\* q_dot = 0.5 * (qw * w + w x v, -(w . v)).
f64EulerStep(q, w, dt) ==
    << f64Advance(q[1], q[4], w[1], f64Det(w[2], q[3], w[3], q[2]), dt),
       f64Advance(q[2], q[4], w[2], f64Det(w[3], q[1], w[1], q[3]), dt),
       f64Advance(q[3], q[4], w[3], f64Det(w[1], q[2], w[2], q[1]), dt),
       f64Add(q[4],
              f64Mul(f64Mul(<<1, -1>>,
                            f64Neg(f64Add(f64Add(f64Mul(w[1], q[1]), f64Mul(w[2], q[2])),
                                          f64Mul(w[3], q[3])))),
                     dt)) >>

\* refreshInertiaCaches(false) of a body of no mass: both tensors zero, the
\* orientation not read.
f64RefreshStatic(rb) ==
    [rb EXCEPT !.InertiaTensor = [i \in 1..9 |-> <<0, 0>>],
               !.Iinv = [i \in 1..9 |-> <<0, 0>>]]

\* integrateOrientation(dt) of the momentum-based version, on a body of no
\* mass.
f64IntegrateOrientation(rb, dt) ==
    IF f64SquaredLength3(rb.angularVelocity) = Inexact
    THEN [rb EXCEPT !.rotation = [i \in 1..4 |-> Inexact]]
    ELSE IF f64SquaredLength3(rb.angularVelocity) = <<0, 0>>
    THEN rb
    ELSE f64RefreshStatic(
             [rb EXCEPT !.rotation =
                  f64Normalize(f64EulerStep(rb.rotation, rb.angularVelocity, dt))])

\* integrateOrientation calls made in one run of SpecTurns.
MaxTurns == 2

\* The angular velocities a body is constructed with: each along one axis, from
\* 2^-600 rad/s to 2^600 rad/s.
Spins ==
    {<<F64(s, e), <<0, 0>>, <<0, 0>>>> : s \in {-1, 1}, e \in {-600, -30, 100, 600}}
    \cup {<<<<0, 0>>, F64(1, e), <<0, 0>>>> : e \in {-30, 100}}
    \cup {<<<<0, 0>>, <<0, 0>>, F64(1, e)>> : e \in {-30, 600}}
    \cup {<<<<0, 0>>, <<0, 0>>, <<0, 0>>>>}

\* The unit orientations a body is constructed with: none, half a turn about
\* x, a third of a turn about the diagonal.
UnitOrientations ==
    { <<<<0, 0>>, <<0, 0>>, <<0, 0>>, <<1, 0>>>>,
      <<<<1, 0>>, <<0, 0>>, <<0, 0>>, <<0, 0>>>>,
      <<<<1, -1>>, <<1, -1>>, <<1, -1>>, <<1, -1>>>> }

\* The time steps: a second, and 1/64 s.
TurnSteps == {<<1, 0>>, <<1, -6>>}

\* new CubeRigidbody(size, 0, ...): a body of density 0, so of mass 0, with the
\* orientation and the angular velocity it is given.
f64StaticBody(rot, w) ==
    [mass |-> <<0, 0>>, rotation |-> rot, angularVelocity |-> w,
     InertiaTensor |-> [i \in 1..9 |-> <<0, 0>>], Iinv |-> [i \in 1..9 |-> <<0, 0>>]]

CallIntegrateOrientationF64(b, dt) ==
    /\ \A i \in 1..4 : f64IntegrateOrientation(bodies[b], dt).rotation[i] # Inexact
    /\ bodies' = [bodies EXCEPT ![b] = f64IntegrateOrientation(bodies[b], dt)]
    /\ call' = [NoCall EXCEPT !.op = "integrateOrientation", !.rb = b, !.delta = dt,
                              !.q = bodies[b].rotation]
    /\ nCalls' = nCalls + 1
    /\ UNCHANGED <<rigidbodies, accum, fixedDt, maxSubsteps, nUpdates, instance>>

InitTurns ==
    /\ \E w \in Spins, q \in UnitOrientations :
           bodies = [b \in BodyIds |-> f64StaticBody(q, w)]
    /\ rigidbodies = <<>>
    /\ accum = R(0)
    /\ fixedDt = DefaultFixedDt
    /\ maxSubsteps = DefaultMaxSubsteps
    /\ call = NoCall
    /\ nUpdates = 0
    /\ nCalls = 0
    /\ instance = AppSolver

NextTurns ==
    /\ nCalls < MaxTurns
    /\ \E dt \in TurnSteps : CallIntegrateOrientationF64("floor", dt)

SpecTurns == InitTurns /\ [][NextTurns]_vars

\* ------------------------------------------- boxes at the range of a double
\* The constructor multiplies the mass by the literal 1 / 12, which is no power
\* of two.  Next to the doubles <<s, e>> above stand <<s, e, "/12">>, the
\* double s * 2^e * (1 / 12), and <<s, e, "x12">>, the double
\* s * 2^e / (1 / 12): scaling a double by a power of two is exact inside the
\* normal range.

\* The exponent of the leading bit of m * 2^e: (1 / 12) is in [2^-4, 2^-3),
\* its reciprocal in [2^3, 2^4).
g64Exponent(x) ==
    IF Len(x) = 2 THEN x[2] ELSE IF x[3] = "/12" THEN x[2] - 4 ELSE x[2] + 3

\* s * 2^e * m as a double: an infinity above the range, zero below half the
\* smallest subnormal, Inexact among the subnormals, where bits are lost.
G64(s, e, m) ==
    IF s = 0 THEN <<0, 0>>
    ELSE IF g64Exponent(<<s, e, m>>) > 1023 THEN <<s, 1024>>
    ELSE IF g64Exponent(<<s, e, m>>) >= -1022 THEN <<s, e, m>>
    ELSE IF g64Exponent(<<s, e, m>>) < -1075 THEN <<0, 0>>
    ELSE Inexact

g64Neg(x) == IF x = Inexact THEN x ELSE [x EXCEPT ![1] = -x[1]]

\* k * p, of a twelfth k and a power of two p.
g64Scale(k, p) ==
    IF p = <<0, 1024>> THEN p
    ELSE IF p[2] = 1024 THEN <<k[1] * p[1], 1024>>
    ELSE G64(k[1] * p[1], k[2] + p[2], k[3])

\* x * y
g64Mul(x, y) ==
    IF x = Inexact \/ y = Inexact THEN Inexact
    ELSE IF Len(x) = 2 /\ Len(y) = 2 THEN f64Mul(x, y)
    ELSE IF Len(x) = 3 /\ Len(y) = 3 THEN Inexact
    ELSE IF Len(x) = 3 THEN g64Scale(x, y)
    ELSE g64Scale(y, x)

\* k + p, of a twelfth k and a power of two p: the larger of the two when they
\* are more than a mantissa apart.
g64Join(k, p) ==
    IF p[2] = 1024 THEN p
    ELSE IF p[1] = 0 THEN k
    ELSE IF g64Exponent(k) - p[2] >= 56 THEN k
    ELSE IF p[2] - g64Exponent(k) >= 56 THEN p
    ELSE Inexact

\* x + y
g64Add(x, y) ==
    IF x = Inexact \/ y = Inexact THEN Inexact
    ELSE IF Len(x) = 2 /\ Len(y) = 2 THEN f64Add(x, y)
    ELSE IF Len(x) = 3 /\ Len(y) = 2 THEN g64Join(x, y)
    ELSE IF Len(x) = 2 THEN g64Join(y, x)
    ELSE IF x[2] = y[2] /\ x[3] = y[3]
         THEN (IF x[1] = y[1] THEN G64(x[1], x[2] + 1, x[3]) ELSE <<0, 0>>)
    ELSE IF g64Exponent(x) - g64Exponent(y) >= 56 THEN x
    ELSE IF g64Exponent(y) - g64Exponent(x) >= 56 THEN y
    ELSE Inexact

\* x > 0
g64Positive(x) == x # Inexact /\ x[1] > 0

\* (x > 0) ? 1 / x : 0
g64ReciprocalOrZero(x) ==
    IF x = Inexact THEN Inexact
    ELSE IF ~g64Positive(x) THEN <<0, 0>>
    ELSE IF Len(x) = 2 THEN f64Inverse(x)
    ELSE IF x[3] = "/12" THEN G64(x[1], -x[2], "x12")
    ELSE Inexact

g64Dot(a, b) ==
    g64Add(g64Add(g64Mul(a[1], b[1]), g64Mul(a[2], b[2])), g64Mul(a[3], b[3]))

\* mat3.multiply(out, a, b), bt the transpose of b.
g64RowsByRows(a, bt) == [i \in 1..3 |-> [j \in 1..3 |-> g64Dot(a[i], bt[j])]]

g64Transpose(m) == [i \in 1..3 |-> [j \in 1..3 |-> m[j][i]]]

\* R * I * R^T
g64WorldTensor(Rm, I) == g64RowsByRows(g64RowsByRows(Rm, g64Transpose(I)), Rm)

g64Diag(a, b, c) ==
    << <<a, <<0, 0>>, <<0, 0>>>>, <<<<0, 0>>, b, <<0, 0>>>>, <<<<0, 0>>, <<0, 0>>, c>> >>

\* mat3.fromQuat, with x2 = x + x, y2 = y + y, z2 = z + z.
g64FromDoubled(q, x2, y2, z2) ==
    << << g64Add(g64Add(<<1, 0>>, g64Neg(g64Mul(q[2], y2))), g64Neg(g64Mul(q[3], z2))),
          g64Add(g64Mul(q[2], x2), g64Neg(g64Mul(q[4], z2))),
          g64Add(g64Mul(q[3], x2), g64Mul(q[4], y2)) >>,
       << g64Add(g64Mul(q[2], x2), g64Mul(q[4], z2)),
          g64Add(g64Add(<<1, 0>>, g64Neg(g64Mul(q[1], x2))), g64Neg(g64Mul(q[3], z2))),
          g64Add(g64Mul(q[3], y2), g64Neg(g64Mul(q[4], x2))) >>,
       << g64Add(g64Mul(q[3], x2), g64Neg(g64Mul(q[4], y2))),
          g64Add(g64Mul(q[3], y2), g64Mul(q[4], x2)),
          g64Add(g64Add(<<1, 0>>, g64Neg(g64Mul(q[1], x2))), g64Neg(g64Mul(q[2], y2))) >> >>

\* refreshInertiaCaches of a body whose mass is not <= 0, Rm the rotation
\* matrix of its orientation.
g64RefreshRotated(rb, Rm, updateAngularMomentum) ==
    [rb EXCEPT !.Iinv =
                   g64WorldTensor(Rm, g64Diag(g64ReciprocalOrZero(rb.InertiaTensor[1][1]),
                                              g64ReciprocalOrZero(rb.InertiaTensor[2][2]),
                                              g64ReciprocalOrZero(rb.InertiaTensor[3][3]))),
               !.angularMomentum =
                   IF updateAngularMomentum
                   THEN [i \in 1..3 |->
                            g64Dot(g64WorldTensor(Rm, rb.InertiaTensor)[i],
                                   rb.angularVelocity)]
                   ELSE rb.angularMomentum]

\* refreshInertiaCaches(updateAngularMomentum)
g64RefreshInertiaCaches(rb, updateAngularMomentum) ==
    IF rb.mass # <<0, 1024>> /\ rb.mass[1] <= 0
    THEN [rb EXCEPT !.InertiaTensor = g64Diag(<<0, 0>>, <<0, 0>>, <<0, 0>>),
                    !.Iinv = g64Diag(<<0, 0>>, <<0, 0>>, <<0, 0>>)]
    ELSE g64RefreshRotated(rb,
                           g64FromDoubled(rb.rotation,
                                          g64Add(rb.rotation[1], rb.rotation[1]),
                                          g64Add(rb.rotation[2], rb.rotation[2]),
                                          g64Add(rb.rotation[3], rb.rotation[3])),
                           updateAngularMomentum)

\* The fields of a body of this size and mass at rest at the origin, before
\* the inertia caches and the momenta are computed: k = (1 / 12) * mass,
\* I0 = diag(k * (y2 + z2), k * (x2 + z2), k * (x2 + y2)).
g64NewBody(sz, mass, k) ==
    [size |-> sz, mass |-> mass,
     rotation |-> <<<<0, 0>>, <<0, 0>>, <<0, 0>>, <<1, 0>>>>,
     velocity |-> <<<<0, 0>>, <<0, 0>>, <<0, 0>>>>,
     angularVelocity |-> <<<<0, 0>>, <<0, 0>>, <<0, 0>>>>,
     linearMomentum |-> <<<<0, 0>>, <<0, 0>>, <<0, 0>>>>,
     angularMomentum |-> <<<<0, 0>>, <<0, 0>>, <<0, 0>>>>,
     InertiaTensor |->
         g64Diag(g64Mul(k, g64Add(g64Mul(sz[2], sz[2]), g64Mul(sz[3], sz[3]))),
                 g64Mul(k, g64Add(g64Mul(sz[1], sz[1]), g64Mul(sz[3], sz[3]))),
                 g64Mul(k, g64Add(g64Mul(sz[1], sz[1]), g64Mul(sz[2], sz[2])))),
     Iinv |-> g64Diag(<<1, 0>>, <<1, 0>>, <<1, 0>>)]

\* this.linearMomentum = vec3.scale(vec3.create(), this.velocity, this.mass)
g64WithLinearMomentum(rb) ==
    [rb EXCEPT !.linearMomentum = [i \in 1..3 |-> g64Mul(rb.velocity[i], rb.mass)]]

\* new CubeRigidbody(size, density, friction, position): a box at rest, its
\* velocities and its rotation the defaults of the constructor.
g64CubeRigidbody(size, density) ==
    g64WithLinearMomentum(
        g64RefreshInertiaCaches(
            g64NewBody(size,
                       g64Mul(density, g64Mul(g64Mul(size[1], size[2]), size[3])),
                       g64Mul(<<1, 0, "/12">>,
                              g64Mul(density, g64Mul(g64Mul(size[1], size[2]), size[3])))),
            TRUE))

\* The sizes boxes are constructed with: a cube of a metre, a plate with no
\* thickness, a thin rod of 2^400 by 2^-600 by 2^-600, a speck of 2^-200.
BoxSizes ==
    { <<<<1, 0>>, <<1, 0>>, <<1, 0>>>>,
      <<<<1, 1>>, <<1, 1>>, <<1, 1>>>>,
      <<<<1, 0>>, <<0, 0>>, <<1, 0>>>>,
      <<<<0, 0>>, <<1, 3>>, <<1, 3>>>>,
      <<<<1, 400>>, <<1, -600>>, <<1, -600>>>>,
      <<<<1, -200>>, <<1, -200>>, <<1, -200>>>> }

\* The densities: none, negative, 1, 1/16, 2^600 and 2^800.
BoxDensities == {<<0, 0>>, <<-1, 0>>, <<1, 0>>, <<1, -4>>, <<1, 600>>, <<1, 800>>}

\* A body not constructed yet.
NoBody == [mass |-> "none"]

\* Every number of the body is one the representation holds.
g64Exact(rb) ==
    /\ rb.mass # Inexact
    /\ \A i \in 1..3 : rb.linearMomentum[i] # Inexact /\ rb.angularMomentum[i] # Inexact
    /\ \A i \in 1..3 : \A j \in 1..3 :
           rb.InertiaTensor[i][j] # Inexact /\ rb.Iinv[i][j] # Inexact

Construct(b, size, density) ==
    /\ bodies[b] = NoBody
    /\ g64Exact(g64CubeRigidbody(size, density))
    /\ bodies' = [bodies EXCEPT ![b] = g64CubeRigidbody(size, density)]
    /\ call' = [NoCall EXCEPT !.op = "new", !.rb = b]
    /\ nCalls' = nCalls + 1
    /\ UNCHANGED <<rigidbodies, accum, fixedDt, maxSubsteps, nUpdates, instance>>

InitBoxes ==
    /\ bodies = [b \in BodyIds |-> NoBody]
    /\ rigidbodies = <<>>
    /\ accum = R(0)
    /\ fixedDt = DefaultFixedDt
    /\ maxSubsteps = DefaultMaxSubsteps
    /\ call = NoCall
    /\ nUpdates = 0
    /\ nCalls = 0
    /\ instance = AppSolver

NextBoxes == \E b \in BodyIds, size \in BoxSizes, density \in BoxDensities :
                 Construct(b, size, density)

SpecBoxes == InitBoxes /\ [][NextBoxes]_vars

\* ------------------------------------------------ constraints between bodies
\* A bForce is an object: the serial number of its construction tells it from
\* every other, and it keeps the two bodies it was constructed with.

\* new bForce(bodyA, bodyB), before its addbForce calls.
bForce(serial, bodyA, bodyB) == [serial |-> serial, bodyA |-> bodyA, bodyB |-> bodyB]

\* rb.addbForce(f)
addbForce(rb, f) == [rb EXCEPT !.forces = Append(rb.forces, f)]

\* rb.removebForce(f)
removebForce(rb, f) == [rb EXCEPT !.forces = SelectSeq(rb.forces, LAMBDA g : g # f)]

\* body?.addbForce(f): the bodies afterwards.
addbForceIfAny(bs, body, f) ==
    IF body = Missing THEN bs ELSE [bs EXCEPT ![body] = addbForce(bs[body], f)]

\* The constructor of bForce: the bodies afterwards.
newbForce(bs, f) == addbForceIfAny(addbForceIfAny(bs, f.bodyA, f), f.bodyB, f)

\* a.isConstrainedTo(b)
isConstrainedTo(bs, a, b) ==
    \E i \in 1..Len(bs[a].forces) :
        \/ bs[a].forces[i].bodyA = a /\ bs[a].forces[i].bodyB = b
        \/ bs[a].forces[i].bodyB = a /\ bs[a].forces[i].bodyA = b

\* bForce constructions and removebForce calls made in one run of
\* SpecConstraints.
MaxConstraintOps == 3

\* The arguments of the constructor of bForce: a body, or null.
BodiesOrNull == BodyIds \cup {Missing}

\* The bForce objects some body holds.
HeldForces == UNION {{bodies[b].forces[i] : i \in 1..Len(bodies[b].forces)} : b \in BodyIds}

ConstructbForce(bodyA, bodyB) ==
    /\ bodies' = newbForce(bodies, bForce(nCalls + 1, bodyA, bodyB))
    /\ call' = [NoCall EXCEPT !.op = "new bForce", !.n = nCalls + 1]
    /\ nCalls' = nCalls + 1
    /\ UNCHANGED <<rigidbodies, accum, fixedDt, maxSubsteps, nUpdates, instance>>

CallRemovebForce(b, f) ==
    /\ bodies' = [bodies EXCEPT ![b] = removebForce(bodies[b], f)]
    /\ call' = [NoCall EXCEPT !.op = "removebForce", !.rb = b, !.n = f.serial]
    /\ nCalls' = nCalls + 1
    /\ UNCHANGED <<rigidbodies, accum, fixedDt, maxSubsteps, nUpdates, instance>>

NextConstraints ==
    \/ \E bodyA \in BodiesOrNull : \E bodyB \in BodiesOrNull :
           nCalls < MaxConstraintOps /\ ConstructbForce(bodyA, bodyB)
    \/ \E b \in BodyIds : \E f \in HeldForces :
           nCalls < MaxConstraintOps /\ CallRemovebForce(b, f)

\* Constraints constructed between the bodies of the scene, and removed from
\* them.
SpecConstraints == Init /\ [][NextConstraints]_vars

\* ------------------------------------------------------------ properties

\* The steps among the events of an update call.
StepCount(ev) == Cardinality({i \in 1..Len(ev) : ev[i] = StepEvent})

\* The frame delta of the last update call, in seconds.
RealDt == RDiv(call.delta, R(1000))

\* C1: a single update call executes at most maxSubsteps steps, whatever the
\* accumulator holds and however large the frame delta is.
C1_AtMostMaxSubsteps == call.op = "update" => StepCount(call.events) <= maxSubsteps

\* A stall of 60 steps met with time already accumulated: the call runs
\* maxSubsteps steps and leaves the rest.
C1_Witness ==
    /\ call.op = "update"
    /\ fixedDt # Null
    /\ call.delta = R(1000)
    /\ RGt(call.accumBefore, R(0))
    /\ StepCount(call.events) = maxSubsteps
    /\ RGt(accum, fixedDt)

\* C7: under a fixed step the accumulator is never negative, and after an
\* update call that ran fewer than maxSubsteps steps it is below fixedDt; it is
\* fixedDt or more only after a call that ran maxSubsteps steps.
C7_AccumulatorRange ==
    /\ RGe(accum, R(0))
    /\ (call.op = "update" /\ fixedDt # Null /\ StepCount(call.events) < maxSubsteps)
           => RLt(accum, fixedDt)

\* A call that ran a step, fewer than maxSubsteps, and left time over.
C7_Witness ==
    /\ call.op = "update"
    /\ fixedDt # Null
    /\ StepCount(call.events) > 0
    /\ StepCount(call.events) < maxSubsteps
    /\ RGt(accum, R(0))
    /\ RLt(accum, fixedDt)

\* min(maxSubsteps, floor(t / fixedDt))
StepsDue(t) ==
    IF RFloor(RDiv(t, fixedDt)) < maxSubsteps
    THEN RFloor(RDiv(t, fixedDt))
    ELSE maxSubsteps

\* C8: an update call with the accumulator at a and the frame delta d runs
\* n = min(maxSubsteps, floor((a + d) / fixedDt)) steps and leaves the
\* accumulator at a + d - n * fixedDt.
C8_StepsAndRemainder ==
    (call.op = "update" /\ fixedDt # Null)
        => /\ StepCount(call.events) = StepsDue(RAdd(call.accumBefore, RealDt))
           /\ call.n = StepCount(call.events)
           /\ accum = RSub(RAdd(call.accumBefore, RealDt),
                           RMul(R(StepCount(call.events)), fixedDt))

\* A frame of 60 steps of 1/60 s under maxSubsteps = 2: two steps run and 58
\* steps of time stay in the accumulator.
C8_Witness ==
    /\ call.op = "update"
    /\ fixedDt = Rat(1, 60)
    /\ maxSubsteps = 2
    /\ call.accumBefore = R(0)
    /\ call.delta = R(1000)
    /\ StepCount(call.events) = 2
    /\ accum = Rat(58, 60)

\* C9: in an update call every step comes before the first draw, and the
\* draws are one per entry of the list, in its order, also when no step ran.
C9_StepsThenDraws ==
    call.op = "update"
        => /\ Len(call.events) = StepCount(call.events) + Len(rigidbodies)
           /\ \A i \in 1..StepCount(call.events) : call.events[i] = StepEvent
           /\ \A i \in 1..Len(rigidbodies) :
                  call.events[StepCount(call.events) + i] = DrawEvent(rigidbodies[i])

\* A call that ran no step and drew a list holding a body twice.
C9_Witness ==
    /\ call.op = "update"
    /\ StepCount(call.events) = 0
    /\ Len(rigidbodies) = 3
    /\ Len(call.events) = 3

\* The calls C2 names: update, the impulse applications and addTorque.
PushingOps ==
    {"update", "applyImpulse", "applyImpulseAtPoint", "applyImpulseAtCenterALL",
     "addTorque"}

\* C2: update, applyImpulse, applyImpulseAtPoint, applyImpulseAtCenterALL and
\* addTorque leave the position and the orientation of every body of
\* mass <= 0 as they were.
C2_ImmovableStaysPut ==
    [][call'.op \in PushingOps
           => \A b \in BodyIds :
                  isImmovable(bodies[b])
                      => /\ bodies'[b].position = bodies[b].position
                         /\ bodies'[b].rotation = bodies[b].rotation]_vars

\* An update that ran a step over a listed body of negative mass that has a
\* velocity: the body is where it was constructed.
C2_Witness ==
    /\ call.op = "update"
    /\ StepCount(call.events) > 0
    /\ \E i \in 1..Len(rigidbodies) : rigidbodies[i] = "floor"
    /\ RLt(bodies["floor"].mass, R(0))
    /\ bodies["floor"].velocity # Zero3
    /\ bodies["floor"].position = vec3FromBabylon(HollowBox.position)

\* The calls C3 names: a physics step and the impulse applications.
ImpulseOps ==
    {"update", "applyImpulse", "applyImpulseAtPoint", "applyImpulseAtCenterALL"}

\* The fields C3 names.
Motion(rb) ==
    <<rb.position, rb.rotation, rb.velocity, rb.angularVelocity, rb.linearMomentum,
      rb.angularMomentum, rb.previousVelocities, rb.previousAngularVelocities>>

\* C3: a physics step and an impulse application leave the position, the
\* orientation, the velocities, the momenta and the history buffers of a body
\* of mass <= 0 as they were, and produce no value that is not finite.
C3_ImmovableUntouched ==
    [][call'.op \in ImpulseOps
           => \A b \in BodyIds :
                  isImmovable(bodies[b])
                      => /\ Motion(bodies'[b]) = Motion(bodies[b])
                         /\ Vec3Finite(bodies'[b].velocity)
                         /\ Vec3Finite(bodies'[b].angularVelocity)]_vars

\* C4: the velocity of every movable body is its linearMomentum / mass, in
\* every state.
C4_VelocityIsMomentumOverMass ==
    \A b \in BodyIds :
        ~isImmovable(bodies[b])
            => bodies[b].velocity =
                   vec3Scale(bodies[b].linearMomentum, RDiv(R(1), bodies[b].mass))

\* angularVelocity = Iinv * angularMomentum
AngularCoherent(rb) ==
    rb.angularVelocity = vec3TransformMat3(rb.angularMomentum, rb.Iinv)

\* The calls C5 names.
TurningOps ==
    {"refreshInertiaCaches", "setRotation", "integrateOrientation", "applyImpulse",
     "update"}

\* C5: refreshInertiaCaches, setRotation, integrateOrientation, applyImpulse
\* and a step keep the angularVelocity of a movable body equal to Iinv applied
\* to its angularMomentum.
C5_AngularVelocityFromMomentum ==
    [][call'.op \in TurningOps
           => \A b \in BodyIds :
                  (~isImmovable(bodies[b]) /\ AngularCoherent(bodies[b]))
                      => AngularCoherent(bodies'[b])]_vars

\* C6: applyImpulse at the centre of a movable body leaves angularMomentum and
\* angularVelocity as they were and adds J / mass to the velocity.
C6_CentralImpulse ==
    [][(/\ call'.op = "applyImpulse"
        /\ ~isImmovable(bodies[call'.rb])
        /\ call'.point = bodies[call'.rb].position)
           => /\ bodies'[call'.rb].angularMomentum = bodies[call'.rb].angularMomentum
              /\ bodies'[call'.rb].angularVelocity = bodies[call'.rb].angularVelocity
              /\ bodies'[call'.rb].velocity =
                     vec3ScaleAndAdd(bodies[call'.rb].velocity, call'.impulse,
                                     RDiv(R(1), bodies[call'.rb].mass))]_vars

\* u is q scaled by a number > 0.
SameDirection(u, q) ==
    /\ \A i, j \in 1..4 : RMul(u[i], q[j]) = RMul(u[j], q[i])
    /\ RGt(RAdd(RAdd(RMul(u[1], q[1]), RMul(u[2], q[2])),
                RAdd(RMul(u[3], q[3]), RMul(u[4], q[4]))), R(0))

\* Iinv is the inverse of the inertia tensor in the world frame of the
\* orientation the body has; it is zero for a body of mass <= 0.
InertiaFresh(rb) ==
    IF RLe(rb.mass, R(0))
    THEN rb.Iinv = mat3Diag(R(0), R(0), R(0))
    ELSE mat3Multiply(rb.Iinv, worldTensor(mat3FromQuat(rb.rotation), rb.InertiaTensor))
             = mat3Identity

C11_NoStepUnderNonPositiveFixedDt ==
    (call.op = "update" /\ fixedDt # Null /\ RLe(fixedDt, R(0)))
        => StepCount(call.events) = 0

\* The history h2 is the history h after n steps, the first of them begun at
\* the velocity v: every step appended an entry, the oldest entries left as
\* the length passed 10.
HistoryAfter(h, h2, v, n) ==
    /\ Len(h2) = (IF Len(h) + n < 10 THEN Len(h) + n ELSE 10)
    /\ h2[Len(h2) - n + 1] = v
    /\ \A i \in 1..(Len(h2) - n) : h2[i] = h[i + (Len(h) + n - Len(h2))]

Listed(rbs, b) == \E i \in 1..Len(rbs) : rbs[i] = b

\* C14: the update after addRigidbody(b) draws b and, when it runs a step,
\* steps it; the update after removeRigidbody(b) neither changes nor draws b;
\* removeRigidbody of a body that is not listed leaves the list as it was.
C14_ListEditsTakeEffect ==
    /\ [][(call.op = "addRigidbody" /\ call'.op = "update")
              => /\ Listed(call'.events, DrawEvent(call.rb))
                 /\ call'.n > 0
                        => bodies'[call.rb].previousVelocities
                               # bodies[call.rb].previousVelocities]_vars
    /\ [][(call.op = "removeRigidbody" /\ call'.op = "update")
              => /\ bodies'[call.rb] = bodies[call.rb]
                 /\ ~Listed(call'.events, DrawEvent(call.rb))]_vars
    /\ [][(call'.op = "removeRigidbody" /\ ~Listed(rigidbodies, call'.rb))
              => rigidbodies' = rigidbodies]_vars

\* C17: integrateOrientation leaves the orientation and Iinv of a body whose
\* angular velocity is exactly zero as they were, and leaves the angular
\* momentum, the linear momentum, the velocity and the position of every
\* body as they were.
C17_IntegrateOrientationFrame ==
    [][call'.op = "integrateOrientation"
           => /\ vec3SquaredLength(bodies[call'.rb].angularVelocity) = R(0)
                     => /\ bodies'[call'.rb].rotation = bodies[call'.rb].rotation
                        /\ bodies'[call'.rb].Iinv = bodies[call'.rb].Iinv
              /\ bodies'[call'.rb].angularMomentum = bodies[call'.rb].angularMomentum
              /\ bodies'[call'.rb].linearMomentum = bodies[call'.rb].linearMomentum
              /\ bodies'[call'.rb].velocity = bodies[call'.rb].velocity
              /\ bodies'[call'.rb].position = bodies[call'.rb].position]_vars

\* The spinning box of three different sides turned by integrateOrientation:
\* its Iinv is no longer that of the body frame, its momenta are those of the
\* constructor.
C17_Witness ==
    /\ call.op = "integrateOrientation"
    /\ call.rb = "cube"
    /\ bodies["cube"].size = V3(1, 2, 3)
    /\ bodies["cube"].rotation = <<Rat(1, 2), Rat(1, 2), Rat(1, 2), Rat(1, 2)>>
    /\ bodies["cube"].Iinv # I0inv(bodies["cube"])
    /\ bodies["cube"].angularMomentum = V3(1560, 1200, 600)

\* C18: addForceAtPoint(force, point) adds (point - position) x force to the
\* torque accumulator and changes no force accumulator, momentum, velocity
\* or position of the body.
C18_ForceAtPointIsTorqueOnly ==
    [][call'.op = "addForceAtPoint"
           => /\ bodies'[call'.rb].torqueAccum =
                     vec3Add(bodies[call'.rb].torqueAccum,
                             vec3Cross(vec3Subtract(call'.point,
                                                    bodies[call'.rb].position),
                                       call'.impulse))
              /\ bodies'[call'.rb].forceAccum = bodies[call'.rb].forceAccum
              /\ bodies'[call'.rb].linearMomentum = bodies[call'.rb].linearMomentum
              /\ bodies'[call'.rb].angularMomentum = bodies[call'.rb].angularMomentum
              /\ bodies'[call'.rb].velocity = bodies[call'.rb].velocity
              /\ bodies'[call'.rb].position = bodies[call'.rb].position]_vars

\* C19: there is at most one Solver. A getInstance call made while an instance
\* exists returns that instance, whatever context it is given: its context,
\* its list of bodies and its accumulator are as before, and nothing is
\* thrown. A call made while none exists throws exactly when the context is
\* missing, and then still no instance exists; with a context it constructs
\* the first Solver, on that context.
C19_OneSolver ==
    /\ [](instance.serial <= 1)
    /\ [][call'.op = "getInstance" /\ call' # call =>
            IF instance # NoInstance
            THEN /\ ~call'.flag
                 /\ instance' = instance
                 /\ rigidbodies' = rigidbodies
                 /\ accum' = accum
            ELSE IF call'.rb = Missing
                 THEN call'.flag /\ instance' = NoInstance
                 ELSE /\ ~call'.flag
                      /\ instance' = [context |-> call'.rb, serial |-> 1]]_vars

\* A later call with another context returned the Solver of the first, its
\* bodies still listed and its backlog kept.
C19_Witness ==
    /\ call.op = "getInstance"
    /\ call.rb = "canvas2"
    /\ ~call.flag
    /\ instance = [context |-> "canvas", serial |-> 1]
    /\ rigidbodies # <<>>
    /\ accum # R(0)

\* C20: under a cap of two steps or more and frame deltas of at most
\* (maxSubsteps - 1) * fixedDt, an accumulator at or above fixedDt eventually
\* drops below fixedDt and is in [0, fixedDt) ever after; under a cap of one
\* step and frame deltas equal to fixedDt no update call lowers the
\* accumulator.
C20_BacklogDrains ==
    /\ (maxSubsteps >= 2 /\ RGe(accum, fixedDt))
           ~> [](RGe(accum, R(0)) /\ RLt(accum, fixedDt))
    /\ [][(maxSubsteps = 1 /\ call'.op = "update" /\ call' # call
               /\ call'.delta = RMul(fixedDt, R(1000)))
              => accum' = accum]_vars

\* The frame that ends the backlog a stall of a second left.
C20_Witness ==
    /\ maxSubsteps >= 2
    /\ nUpdates = MaxSpikes
    /\ call.op = "update"
    /\ call.delta # SpikeDelta
    /\ RGe(call.accumBefore, fixedDt)
    /\ RLt(accum, fixedDt)

\* 2^28 times the sum of the squares of the components of q, the components
\* below 2^-14 left out: less than 2^-28 each.
RECURSIVE Pow2(_)
Pow2(n) == IF n = 0 THEN 1 ELSE 2 * Pow2(n - 1)

SquaresScaled(q, i) == IF q[i][1] = 0 \/ q[i][2] < -14 THEN 0 ELSE Pow2(28 + 2 * q[i][2])

\* | |q| - 1 | <= 1e-6, as 2^28 (1 - 1e-6)^2 <= 2^28 |q|^2 <= 2^28 (1 + 1e-6)^2.
UnitWithinTolerance(q) ==
    /\ \A i \in 1..4 : q[i][2] <= 0
    /\ SquaresScaled(q, 1) + SquaresScaled(q, 2) + SquaresScaled(q, 3)
           + SquaresScaled(q, 4) \in 268434920..268435992

\* C16: an orientation of unit norm has unit norm, within 1e-6, after every
\* integrateOrientation call, whatever the finite angular velocity and the
\* time step dt > 0.
C16_OrientationStaysUnit ==
    [][(call'.op = "integrateOrientation" /\ call' # call
            /\ UnitWithinTolerance(bodies[call'.rb].rotation))
           => UnitWithinTolerance(bodies'[call'.rb].rotation)]_vars

\* x is zero.
IsZero(x) == x = <<0, 0>>

\* C21: a body of mass > 0 has the three diagonal entries of its local inertia
\* tensor > 0, so that refreshInertiaCaches takes the reciprocal of each; a box
\* with a size of zero on some axis has mass 0, is immovable, and has an
\* inertia tensor and a world inverse inertia of zeros.
C21_InertiaOfMovableIsPositive ==
    \A b \in BodyIds :
        bodies[b] # NoBody =>
            /\ g64Positive(bodies[b].mass)
                   => \A i \in 1..3 : g64Positive(bodies[b].InertiaTensor[i][i])
            /\ (\E i \in 1..3 : IsZero(bodies[b].size[i]))
                   => /\ IsZero(bodies[b].mass)
                      /\ \A i \in 1..3 : \A j \in 1..3 :
                             /\ IsZero(bodies[b].InertiaTensor[i][j])
                             /\ IsZero(bodies[b].Iinv[i][j])

\* The entries of the list rbs that hold b.
Count(rbs, b) == Cardinality({i \in 1..Len(rbs) : rbs[i] = b})

\* The bodies after m passes of the first loop of step over b, of the second
\* and of the third.
RECURSIVE PredictedTimes(_, _, _, _)
PredictedTimes(bs, b, dt, m) ==
    IF m = 0 THEN bs
    ELSE PredictedTimes([bs EXCEPT ![b] = stepPredict(bs[b], dt)], b, dt, m - 1)

RECURSIVE SolvedTimes(_, _, _)
SolvedTimes(bs, b, m) ==
    IF m = 0 THEN bs ELSE SolvedTimes([bs EXCEPT ![b] = stepSolve(bs[b])], b, m - 1)

RECURSIVE EndedTimes(_, _, _, _)
EndedTimes(bs, b, dt, m) ==
    IF m = 0 THEN bs
    ELSE EndedTimes([bs EXCEPT ![b] = stepEnd(bs[b], dt)], b, dt, m - 1)

\* The bodies after n steps of dt, each of which visits b m times in each of
\* its loops and visits no other body.
RECURSIVE SteppedTimes(_, _, _, _, _)
SteppedTimes(bs, b, dt, m, n) ==
    IF n = 0 THEN bs
    ELSE SteppedTimes(
             EndedTimes(SolvedTimes(PredictedTimes(bs, b, dt, m), b, m), b, dt, m),
             b, dt, m, n - 1)

\* C22: addRigidbody(b) adds an entry for b whether b is listed or not, and
\* removeRigidbody(b) takes away the first entry of b and no other, so that k
\* adds and j <= k removes of a body leave k - j entries of it; a body with m
\* entries is visited m times by each loop of every step and drawn m times by
\* every update.
C22_ListedAsOftenAsAdded ==
    /\ [][call'.op = "addRigidbody"
              => /\ rigidbodies' = Append(rigidbodies, call'.rb)
                 /\ \A b \in BodyIds :
                        Count(rigidbodies', b)
                            = Count(rigidbodies, b) + (IF b = call'.rb THEN 1 ELSE 0)]_vars
    /\ [][(call'.op = "removeRigidbody" /\ Count(rigidbodies, call'.rb) > 0)
              => /\ \A b \in BodyIds :
                        Count(rigidbodies', b)
                            = Count(rigidbodies, b) - (IF b = call'.rb THEN 1 ELSE 0)
                 /\ \E i \in 1..Len(rigidbodies) :
                        /\ rigidbodies[i] = call'.rb
                        /\ \A j \in 1..(i - 1) : rigidbodies[j] # call'.rb
                        /\ rigidbodies' = SubSeq(rigidbodies, 1, i - 1)
                                              \o SubSeq(rigidbodies, i + 1, Len(rigidbodies))]_vars
    /\ [][call'.op = "update"
              => \A b \in BodyIds :
                     /\ Count(call'.events, DrawEvent(b)) = Count(rigidbodies, b)
                     /\ bodies'[b] = SteppedTimes(bodies, b, fixedDt,
                                                  Count(rigidbodies, b), call'.n)[b]]_vars

\* The cube, movable, is listed twice and an update has run a step on it and
\* drawn it twice.
C22_Witness ==
    /\ call.op = "update"
    /\ call.n > 0
    /\ Count(rigidbodies, "cube") = 2
    /\ ~isImmovable(bodies["cube"])
    /\ Count(call.events, DrawEvent("cube")) = 2

\* C23: after bForce constructions and removebForce calls, a.isConstrainedTo(b)
\* holds exactly when b.isConstrainedTo(a) holds, for all bodies a and b.
C23_ConstraintIsSymmetric ==
    \A a \in BodyIds : \A b \in BodyIds :
        isConstrainedTo(bodies, a, b) <=> isConstrainedTo(bodies, b, a)

=============================================================================
